---- MODULE Spec2Model ----
(***************************************************************************)
(* Build-session orchestration of hyperzenith: the local Android build     *)
(* (execute_build, abort_build, the ACTIVE_BUILD_HANDLE registry, the two  *)
(* line relays and the shared log buffer) and the hardware profile         *)
(* (calculate_profile) of src-tauri/src/lib.rs, and the remote iOS         *)
(* operations (start_ios_build with sync_files and execute_turbo_ios,      *)
(* trigger_nuke_ios with nuke_ios_remote, create_session,                  *)
(* run_remote_command) of src-tauri/src/ios.rs.                            *)
(*                                                                         *)
(* Text is a sequence of code points, a stream a sequence of bytes, a      *)
(* MacConfig string a sequence of characters.  Option<T> is a set with at  *)
(* most one element.  The Observer is an external sink: what each emitter  *)
(* sent is kept per emitter.  netlog keeps the network operations the      *)
(* remote side attempted, in order.                                        *)
(***************************************************************************)
EXTENDS Integers, Sequences, FiniteSets, TLC

\* ------------------------------------------------------------------ bounds

\* Concurrent invocations of execute_build that are modelled.
NumBuilds == 2
\* Longest stdout / remote channel stream that is enumerated, in bytes.
MaxStreamLen == 3
\* Longest stderr stream that is enumerated, in bytes.
MaxErrLen == 1
\* Longest MacConfig.ip that is enumerated, in characters.
MaxIpLen == 3
\* Largest core count and largest memory size (GiB) that are enumerated.
MaxCores == 33
MaxRamGiB == 40
\* Longest path given to windows_to_wsl_path, in characters.
MaxPathLen == 3
MaxStamp == 1

\* --------------------------------------------------------------- constants

\* run_remote_command's read buffer, [0u8; 1024].
BufSize == 1024
\* '\n', '\r', U+FFFD REPLACEMENT CHARACTER, the first non-ASCII byte.
LF == 10
CR == 13
Replacement == 65533
AsciiLimit == 128
\* The exit code TerminateProcess gives a killed child (Child::kill on Windows).
KilledCode == 1
\* channel.exit_status().unwrap_or(-1)
UnknownStatus == -1

Builds == 1..NumBuilds
\* Process 0 is a child that is alive or dead before any modelled invocation.
Stale == 0
Procs == {Stale} \cup Builds
StreamNames == {"stdout", "stderr"}
\* 'A', '\n' and 0xFF, a byte that no UTF-8 text contains.
ByteAlphabet == {65, LF, 255}
ExitCodes == {0, 1, 2}
RemoteStatuses == ExitCodes \cup {UnknownStatus}
\* 1024: one step of total_ram_bytes / 1024 / 1024 / 1024.
Kibi == 1024
\* max_workers.max(4); jvm_heap_gb.clamp(4, 16)
MinWorkers == 4
MinHeapGb == 4
MaxHeapGb == 16
\* The memory size of the high-end machine of test_hardware_clamping, in GiB.
HighEndGiB == 256
\* ':', '\\' and '/'.
Colon == 58
Backslash == 92
Slash == 47
\* 'A', 'Z', and the distance from an upper-case ASCII letter to its lower case.
UpperA == 65
UpperZ == 90
CaseGap == 32
\* The first code points whose UTF-8 encoding takes three and four bytes.
ThreeByteStart == 2048
FourByteStart == 65536
\* &win_path[2..]: the byte offset the remainder is cut at.
DriveBytes == 2

VARIABLES
    registry,   \* ACTIVE_BUILD_HANDLE: Option<Child>, {} or {p}
    child,      \* child[p]: the subprocess p, [state, code]
    script,     \* script[b][s]: the bytes build b's command writes to stream s
    pc,         \* pc[b]: where invocation b of execute_build stands
    pipe,       \* pipe[b][s]: the bytes not yet read from the child's stream s
    relay,      \* relay[b][s]: the relay thread of stream s
    emitted,    \* emitted[b][s]: the "build-output" payloads relay s sent
    logBuffer,  \* logBuffer[b]: log_buffer, as the appended entries [src, text]
    status,     \* status[b]: Option<exit code> that child.wait() returned
    logPath,    \* logPath[b]: Option<log_path>
    logWrite,   \* logWrite[b]: Option<std::fs::write of the log returned Ok>
    files,      \* hyperzenith_logs of the working directory: the files [path, content]
    notices,    \* notices[b]: the controller's own "build-output" payloads
    archived,   \* archived[b]: the artifact was copied into the archive
    result,     \* result[b]: Option<the value execute_build returned>
    abortResult, \* what the last abort_build did and returned
    now,        \* the second Local::now() shows
    bufLock,    \* bufLock[b]: the mutex of log_buffer, {} or {the relay holding it}
    buildType,  \* buildType[b]: build_type given to execute_build
    turboMode,  \* turboMode[b]: turbo_mode given to execute_build
    task,       \* task[b]: Option<the Gradle task chosen>
    wslCmd,     \* wslCmd[b]: Option<the command line built: [tool, task]>
    artifact,   \* artifact[b]: Option<(output_subpath, ext) looked for>
    xcode,      \* the remote host has xcodebuild on its PATH
    rscript,    \* the bytes the remote build command writes to its channel
    rpc,        \* where the invocation of execute_turbo_ios stands
    rchan,      \* the bytes not yet read from the build command's channel
    rend,       \* how run_remote_command's read loop ended
    remitted,   \* the "build-output" payloads run_remote_command sent
    rbuffer,    \* log_buffer of execute_turbo_ios, as the appended chunks
    rcmd,       \* Option<what run_remote_command returned>
    rstatus,    \* Option<exit status of the build command's channel>
    rlogPath,   \* Option<log_path> of execute_turbo_ios
    rlogWrite,  \* Option<std::fs::write of the log returned Ok>
    rfile,      \* Option<the log file execute_turbo_ios wrote>
    rnotices,   \* execute_turbo_ios' own "build-output" payloads
    rresult,    \* Option<the value execute_turbo_ios / nuke_ios_remote returned>
    rop,        \* the remote operation: "build" (start_ios_build), "nuke", "none"
    config,     \* the MacConfig of the remote operation
    netlog,     \* the network operations attempted so far, in order
    rsess,      \* Option<what create_session returned: "ok" or the error>
    rreply,     \* Option<what the Tauri command returned to its caller>
    hwCores,    \* cpu_cores given to calculate_profile
    hwRamMiB,   \* total_ram_bytes given to calculate_profile, in MiB
    hwProfile,  \* Option<the HardwareProfile calculate_profile returned>
    wpPath,     \* win_path given to windows_to_wsl_path, as code points
    wpResult,   \* Option<what windows_to_wsl_path did: [panic, out]>
    shScript,   \* the remote shell script that is run: "nuke", "build", "none"
    shPath,     \* remote_path as the shell splits it: words and metacharacters
    shScheme,   \* scheme, likewise
    shEnv,      \* shEnv[c]: the exit status of command c of the script when run
    shRun       \* Option<how the script ran: [trace, status, exited]>

planVars == <<buildType, turboMode, task, wslCmd, artifact>>

localVars == <<registry, child, script, pc, pipe, relay, emitted, logBuffer,
               status, logPath, logWrite, files, notices, archived, result, abortResult,
               now, bufLock, planVars>>

remoteVars == <<xcode, rscript, rpc, rchan, rend, remitted, rbuffer, rcmd, rstatus,
                rlogPath, rlogWrite, rfile, rnotices, rresult, rop, config, netlog, rsess, rreply>>

pureVars == <<hwCores, hwRamMiB, hwProfile, wpPath, wpResult, shScript, shPath, shScheme,
              shEnv,
              shRun>>

\* ------------------------------------------------------------ pure helpers

Min(a, b) == IF a < b THEN a ELSE b

IsPrefix(a, b) == Len(a) <= Len(b) /\ SubSeq(b, 1, Len(a)) = a

SeqsUpTo(A, n) == UNION {[1..k -> A] : k \in 0..n}

RECURSIVE Flatten(_)
Flatten(ss) == IF ss = <<>> THEN <<>> ELSE Head(ss) \o Flatten(Tail(ss))

\* Position of the first LF of bs, 0 when there is none.
FirstLF(bs) ==
    IF \E i \in 1..Len(bs) : bs[i] = LF
    THEN CHOOSE i \in 1..Len(bs) : bs[i] = LF /\ \A j \in 1..(i - 1) : bs[j] # LF
    ELSE 0

\* String::from_utf8 accepts the bytes (over ByteAlphabet: every byte is ASCII).
ValidUtf8(bs) == \A i \in 1..Len(bs) : bs[i] < AsciiLimit

\* String::from_utf8_lossy (over ByteAlphabet: a non-ASCII byte is never part
\* of a valid sequence and becomes U+FFFD).
Utf8Lossy(bs) == [i \in 1..Len(bs) |-> IF bs[i] < AsciiLimit THEN bs[i] ELSE Replacement]

\* BufRead::lines drops the line's "\n" and a "\r" before it.
StripCR(bs) ==
    IF Len(bs) > 0 /\ bs[Len(bs)] = CR THEN SubSeq(bs, 1, Len(bs) - 1) ELSE bs

\* The pipe's write end is closed once the child is gone.
PipeClosed(b) == child[b].state # "running"

\* BufRead::lines' next item on pipe bytes p: what it consumes and yields.
NextLine(p, closed) ==
    LET i == FirstLF(p) IN
    IF i > 0
    THEN [kind |-> "line", bytes |-> StripCR(SubSeq(p, 1, i - 1)),
          rest |-> SubSeq(p, i + 1, Len(p))]
    ELSE IF closed /\ p # <<>>
    THEN [kind |-> "line", bytes |-> p, rest |-> <<>>]
    ELSE IF closed
    THEN [kind |-> "eof", bytes |-> <<>>, rest |-> <<>>]
    ELSE [kind |-> "block", bytes |-> <<>>, rest |-> p]

\* The line pushed as it was emitted.
LineEntryBare(line) == line

\* format!("{}\n", line)
LineEntry(line) == line \o <<LF>>

\* The String the log buffer of invocation b holds.
BufferText(b) == Flatten([i \in 1..Len(logBuffer[b]) |-> logBuffer[b][i].text])

\* The entries of logBuffer[b] that relay s appended, in order.
RECURSIVE EntriesOf(_, _)
EntriesOf(buf, s) ==
    IF buf = <<>> THEN <<>>
    ELSE IF Head(buf).src = s THEN <<Head(buf).text>> \o EntriesOf(Tail(buf), s)
    ELSE EntriesOf(Tail(buf), s)

\* Child::kill: terminates a live process; on a finished one it does nothing
\* and returns Ok as well.
KillProc(ch, p) ==
    IF ch[p].state = "running"
    THEN [ch EXCEPT ![p] = [state |-> "killed", code |-> KilledCode]]
    ELSE ch

\* ExitStatus::success
Success(code) == code = 0

\* Result<String, String>
Ok(m) == [ok |-> TRUE, msg |-> m, code |-> {}, path |-> {}]
Err(m) == [ok |-> FALSE, msg |-> m, code |-> {}, path |-> {}]

NoAbort == [ok |-> TRUE, msg |-> "none", took |-> {}]

\* ------------------------------------------------- calculate_profile

Max(a, b) == IF a > b THEN a ELSE b

\* usize::clamp
Clamp(x, lo, hi) == IF x < lo THEN lo ELSE IF x > hi THEN hi ELSE x

\* A profile whose heap has no upper limit.
CalculateProfileNoCeiling(cpu_cores, total_ram_mib) ==
    [max_workers |-> Max((cpu_cores * 9) \div 10, MinWorkers),
     jvm_heap_gb |-> Max((total_ram_mib \div Kibi) \div 2, MinHeapGb),
     cpu_cores |-> cpu_cores,
     total_ram_gb |-> total_ram_mib \div Kibi]

\* calculate_profile(cpu_cores, total_ram_bytes) with total_ram_bytes given in
\* whole MiB (total_ram_bytes / 1024 / 1024; the machine integers here have
\* 32 bits): total_ram_gb is one more division by 1024; (cpu_cores as f64 *
\* 0.9).floor() is the integer part of 9 * cpu_cores / 10 (the double next to
\* 0.9 lies above it by less than 3e-17, so the product never falls below a
\* whole number it should reach nor climbs to the next one for any core
\* count below 2^50); (total_ram_gb as f64 * 0.5).floor() is exact.
CalculateProfile(cpu_cores, total_ram_mib) ==
    LET total_ram_gb == total_ram_mib \div Kibi
        max_workers == (cpu_cores * 9) \div 10
        jvm_heap_gb == total_ram_gb \div 2
    IN  [max_workers |-> Max(max_workers, MinWorkers),
         jvm_heap_gb |-> Clamp(jvm_heap_gb, MinHeapGb, MaxHeapGb),
         cpu_cores |-> cpu_cores,
         total_ram_gb |-> total_ram_gb]

\* The machine sizes that are enumerated: every core count up to MaxCores,
\* every whole number of GiB up to MaxRamGiB and the last MiB below the next
\* one, and the high-end machine.
CoreCounts == 0..MaxCores
RamSizesMiB ==
    {g * Kibi + r : g \in 0..MaxRamGiB, r \in {0, Kibi - 1}} \cup {HighEndGiB * Kibi}

\* No profile is asked for.
ProfileUnused ==
    /\ hwCores = 0
    /\ hwRamMiB = 0
    /\ hwProfile = {}

\* No path is converted.
PathUnused ==
    /\ wpPath = <<>>
    /\ wpResult = {}

\* No remote script runs.
ScriptUnused ==
    /\ shScript = "none"
    /\ shPath = <<>>
    /\ shScheme = <<>>
    /\ shEnv = [c \in {} |-> 0]
    /\ shRun = {}

PureUnused == ProfileUnused /\ PathUnused /\ ScriptUnused

InitProfile(cores, rams) ==
    /\ hwCores \in cores
    /\ hwRamMiB \in rams
    /\ hwProfile = {}
    /\ PathUnused
    /\ ScriptUnused

\* get_hardware_profile: calculate_profile(sys.cpus().len(), sys.total_memory())
GetHardwareProfile ==
    /\ hwProfile = {}
    /\ hwProfile' = {CalculateProfile(hwCores, hwRamMiB)}
    /\ UNCHANGED <<localVars, remoteVars, hwCores, hwRamMiB, wpPath, wpResult, shScript, shPath, shScheme,
                   shEnv, shRun>>

\* ----------------------------------------------- windows_to_wsl_path

\* The number of bytes of the UTF-8 encoding of code point c.
Utf8Width(c) ==
    IF c < AsciiLimit THEN 1
    ELSE IF c < ThreeByteStart THEN 2
    ELSE IF c < FourByteStart THEN 3
    ELSE 4

\* str::len of the first n characters of p: their length in bytes.
RECURSIVE ByteLen(_, _)
ByteLen(p, n) == IF n = 0 THEN 0 ELSE ByteLen(p, n - 1) + Utf8Width(p[n])

\* char::to_lowercase().next() on the code points of PathAlphabet.
ToLower(c) == IF c >= UpperA /\ c <= UpperZ THEN c + CaseGap ELSE c

\* str::replace("\\", "/")
ReplaceBackslash(p) == [i \in 1..Len(p) |-> IF p[i] = Backslash THEN Slash ELSE p[i]]

\* "/mnt/"
MntPrefix == <<Slash, 109, 110, 116, Slash>>

\* &win_path[2..]: the characters from byte offset 2 on; the slice panics
\* when that offset lies inside a character.
SliceFromByteTwo(p) ==
    LET starts == {i \in 1..Len(p) + 1 : ByteLen(p, i - 1) = DriveBytes} IN
    IF starts = {}
    THEN [panic |-> TRUE, rest |-> <<>>]
    ELSE [panic |-> FALSE, rest |-> SubSeq(p, CHOOSE i \in starts : TRUE, Len(p))]

\* windows_to_wsl_path: what it returns, or that it panics.
WindowsToWslPath(p) ==
    IF ByteLen(p, Len(p)) >= 2 /\ Len(p) >= 2 /\ p[2] = Colon
    THEN LET drive == ToLower(p[1])
             cut == SliceFromByteTwo(p)
         IN  IF cut.panic
             THEN [panic |-> TRUE, out |-> <<>>]
             ELSE [panic |-> FALSE,
                   out |-> MntPrefix \o <<drive>> \o ReplaceBackslash(cut.rest)]
    ELSE [panic |-> FALSE, out |-> ReplaceBackslash(p)]

\* 'C', 'a', ':', '\\', and the two- and three-byte characters U+00E9, U+20AC.
PathAlphabet == {67, 97, Colon, Backslash, 233, 8364}

InitPath(paths) ==
    /\ wpPath \in paths
    /\ wpResult = {}
    /\ ProfileUnused
    /\ ScriptUnused

\* One call of windows_to_wsl_path.
ConvertPath ==
    /\ wpResult = {}
    /\ wpResult' = {WindowsToWslPath(wpPath)}
    /\ UNCHANGED <<localVars, remoteVars, hwCores, hwRamMiB, hwProfile, wpPath, shScript, shPath, shScheme,
                   shEnv, shRun>>

\* ------------------------------------------------ remote shell scripts

\* The shell constructs the two scripts are made of: a simple command,
\* "a; b; ..", "a && b && ..", "a || true", and "if c; then t; else e; fi".
Cmd(n) == [k |-> "cmd", name |-> n, items |-> <<>>]
SeqList(xs) == [k |-> "seq", name |-> "", items |-> xs]
AndList(xs) == [k |-> "and", name |-> "", items |-> xs]
OrTrue(x) == [k |-> "ortrue", name |-> "", items |-> <<x>>]
IfThenElse(c, t, e) == [k |-> "if", name |-> "", items |-> <<c, t, e>>]
IfThen(c, t) == IfThenElse(c, t, SeqList(<<>>))

\* The shell before its first command.
ShellStart == [trace |-> <<>>, status |-> 0, exited |-> FALSE]

\* sh -c: the commands that ran, in order, the exit status, and whether
\* "set -e" ended the shell.  A failing simple command ends the shell when
\* errexit is set, unless it stands in the condition of an if, in a list
\* before "||", or before the last "&&" of a list (exempt).  The status of a
\* sequence is that of its last command, of an if that of the branch taken,
\* 0 when none was.
RECURSIVE Exec(_, _, _, _, _)
RECURSIVE ExecSeq(_, _, _, _, _, _)
RECURSIVE ExecAnd(_, _, _, _, _, _)
Exec(node, st, env, errexit, exempt) ==
    IF st.exited THEN st
    ELSE CASE node.k = "cmd" ->
                [trace |-> Append(st.trace, node.name),
                 status |-> env[node.name],
                 exited |-> env[node.name] # 0 /\ errexit /\ ~exempt]
           [] node.k = "seq" ->
                ExecSeq(node.items, 1, [st EXCEPT !.status = 0], env, errexit, exempt)
           [] node.k = "and" ->
                ExecAnd(node.items, 1, st, env, errexit, exempt)
           [] node.k = "ortrue" ->
                [Exec(node.items[1], st, env, errexit, TRUE) EXCEPT !.status = 0]
           [] node.k = "if" ->
                LET c == Exec(node.items[1], st, env, errexit, TRUE) IN
                IF c.status = 0
                THEN Exec(node.items[2], c, env, errexit, exempt)
                ELSE Exec(node.items[3], c, env, errexit, exempt)
ExecSeq(items, i, st, env, errexit, exempt) ==
    IF i > Len(items) \/ st.exited THEN st
    ELSE ExecSeq(items, i + 1, Exec(items[i], st, env, errexit, exempt),
                 env, errexit, exempt)
ExecAnd(items, i, st, env, errexit, exempt) ==
    IF i > Len(items) THEN st
    ELSE LET r == Exec(items[i], st, env, errexit, exempt \/ i < Len(items)) IN
         IF r.exited \/ r.status # 0 THEN r
         ELSE ExecAnd(items, i + 1, r, env, errexit, exempt)

\* remote_path and scheme are pasted into the scripts as they are, without
\* quotes, so the shell splits them like the rest of the script: "proj" is
\* one word, "proj;true" and "App&&false" two commands each, and in
\* "app (copy)" the parentheses stand where no command can take them.
RemotePaths ==
    {<<"proj">>, <<"proj", ";", "true">>, <<"app", " ", "(", "copy", ")">>}
Schemes ==
    {<<"App">>, <<"App", ";", "true">>, <<"App", "&&", "false">>, <<"(", "x", ")">>}

\* A "(" or ")" after the word of a command: the shell rejects the script.
SyntaxError(value) == \E i \in 1..Len(value) : value[i] \in {"(", ")"}

\* The control operators in a pasted value, in order.
IsConnector(t) == t \in {";", "&&"}
Connectors(value) == SelectSeq(value, IsConnector)

\* The number of commands the operators of the value make of it.
PathParts(value) == Len(Connectors(value)) + 1

\* A command of a script and the operator that follows it.
Link(node, conn) == [node |-> node, conn |-> conn]

\* The commands between the first and the last part of a pasted value.
MiddleParts(value, mid) ==
    [i \in 1..(PathParts(value) - 2) |-> Link(Cmd(mid), Connectors(value)[i + 1])]

\* The text "<before>{value}<after>" as the shell reads it: with a value of
\* one word the one command whole; otherwise the command first ends at the
\* first operator of the value, its middle parts are commands of their own,
\* and its last part begins the command last.  conn follows the text.
Pasted(value, whole, first, mid, last, conn) ==
    IF PathParts(value) = 1 THEN <<Link(Cmd(whole), conn)>>
    ELSE <<Link(Cmd(first), Connectors(value)[1])>>
         \o MiddleParts(value, mid)
         \o <<Link(Cmd(last), conn)>>

\* The "&&" lists the ";" of a script separate.
RECURSIVE AndLists(_, _)
AndLists(links, cur) ==
    IF links = <<>> THEN (IF cur = <<>> THEN <<>> ELSE <<AndList(cur)>>)
    ELSE IF Head(links).conn = ";"
         THEN <<AndList(Append(cur, Head(links).node))>> \o AndLists(Tail(links), <<>>)
         ELSE AndLists(Tail(links), Append(cur, Head(links).node))

\* The script the shell reads from commands and the operators between them.
ReadScript(links) == SeqList(AndLists(links, <<>>))

\* c1; c2; ..
Each(nodes) == [i \in 1..Len(nodes) |-> Link(nodes[i], ";")]

\* nuke_cmd: "set -e; echo ..; killall .. || true; echo ..; cd {path}/ios &&
\* xcodebuild clean; echo ..; rm -rf ..DerivedData/*; echo ..; rm -rf
\* ..CocoaPods; rm -rf Pods Podfile.lock; echo ..; xcrun simctl erase all;
\* echo ..; rm -rf $TMPDIR/..; watchman watch-del-all || true; echo ..;
\* pod install --repo-update; echo .."
NukeScript(path) ==
    ReadScript(
        Each(<<Cmd("echo"), OrTrue(Cmd("killall")), Cmd("echo")>>)
        \o Pasted(path, "cd_ios", "cd_project", "path_cmd", "path_cmd_ios", "&&")
        \o Each(<<Cmd("xcodebuild_clean"),
                  Cmd("echo"), Cmd("rm_derived_data"),
                  Cmd("echo"), Cmd("rm_cocoapods_cache"), Cmd("rm_pods"),
                  Cmd("echo"), Cmd("simctl_erase"),
                  Cmd("echo"), Cmd("rm_react_tmp"), OrTrue(Cmd("watchman_del")),
                  Cmd("echo"), Cmd("pod_install"), Cmd("echo")>>))

\* The commands that begin with a part of a pasted value: the shell looks
\* the word up as a command; 127 is its status when there is none.
PastedStatuses == {0, 1, 127}
PastedCommands(value, mid, last) ==
    IF PathParts(value) = 1 THEN {}
    ELSE last \cup (IF PathParts(value) > 2 THEN {mid} ELSE {})

\* The exit status of a command that succeeds or fails.
ExitStatus(ok) == IF ok THEN 0 ELSE 1

\* The commands of nuke_cmd that can fail.
NukeCommands ==
    {"killall", "cd_ios", "xcodebuild_clean", "rm_derived_data", "rm_cocoapods_cache",
     "rm_pods", "simctl_erase", "rm_react_tmp", "watchman_del", "pod_install"}

\* The remote host on which the commands in fails fail.
NukeEnv(fails, pasted) ==
    [c \in NukeCommands \cup {"echo", "cd_project", "path_cmd", "path_cmd_ios"} |->
        IF c \in DOMAIN pasted THEN pasted[c] ELSE ExitStatus(c \notin fails)]

\* hydration_cmd: "if [ ! -d 'node_modules' ]; then if [ -f
\* 'package-lock.json' ]; then echo ..; npm ci --prefer-offline; else echo ..;
\* npm install; fi fi; if [ -d 'ios' ]; then cd ios; echo ..; if [ ! -d 'Pods'
\* ]; then echo ..; pod install; fi; cd ..; fi": its two if commands.
HydrateNode ==
    IfThen(Cmd("no_node_modules"),
           IfThenElse(Cmd("has_lockfile"),
                      SeqList(<<Cmd("echo"), Cmd("npm_ci")>>),
                      SeqList(<<Cmd("echo"), Cmd("npm_install")>>)))
LinkPods ==
    IfThen(Cmd("has_ios_dir"),
           SeqList(<<Cmd("cd_ios"), Cmd("echo"),
                 IfThen(Cmd("no_pods"), SeqList(<<Cmd("echo"), Cmd("pod_install")>>)),
                 Cmd("cd_up")>>))

\* "xcodebuild -workspace {scheme}.xcworkspace -scheme {scheme}
\* -configuration .." as the shell reads it: an operator in the scheme ends
\* xcodebuild after "-workspace" and the first part, and the two copies of
\* the last part begin commands of their own.
XcodebuildCommand(scheme) ==
    IF PathParts(scheme) = 1 THEN <<Link(Cmd("xcodebuild"), ";")>>
    ELSE Pasted(scheme, "xcodebuild", "xcodebuild", "scheme_cmd", "scheme_workspace_cmd",
                Connectors(scheme)[1])
         \o MiddleParts(scheme, "scheme_cmd")
         \o <<Link(Cmd("scheme_flags_cmd"), ";")>>

\* build_cmd: "cd {path} && {hydration} && cd ios && xcodebuild ..", as the
\* shell reads it: the ";" between the two if commands of the hydration ends
\* the first "&&" list.
BuildScript(path, scheme) ==
    ReadScript(
        Pasted(path, "cd_project", "cd_project", "path_cmd", "path_cmd", "&&")
        \o <<Link(HydrateNode, ";"), Link(LinkPods, "&&"), Link(Cmd("cd_ios"), "&&")>>
        \o XcodebuildCommand(scheme))

\* What the remote host is like for build_cmd.
BuildFacts ==
    [cdProject : BOOLEAN, nodeModules : BOOLEAN, lockfile : BOOLEAN, npmOk : BOOLEAN,
     iosDir : BOOLEAN, pods : BOOLEAN, podOk : BOOLEAN, xcodebuildOk : BOOLEAN]

\* The exit status of each command of build_cmd on such a host.
BuildEnv(f, pasted) ==
    [c \in {"echo", "cd_project", "path_cmd", "no_node_modules", "has_lockfile", "npm_ci",
            "npm_install", "has_ios_dir", "cd_ios", "no_pods", "pod_install", "cd_up",
            "xcodebuild", "scheme_cmd", "scheme_workspace_cmd", "scheme_flags_cmd"} |->
        IF c \in DOMAIN pasted THEN pasted[c]
        ELSE ExitStatus(CASE c = "cd_project" -> f.cdProject
                          [] c = "no_node_modules" -> ~f.nodeModules
                          [] c = "has_lockfile" -> f.lockfile
                          [] c \in {"npm_ci", "npm_install"} -> f.npmOk
                          [] c \in {"has_ios_dir", "cd_ios"} -> f.iosDir
                          [] c = "no_pods" -> ~f.pods
                          [] c = "pod_install" -> f.podOk
                          [] c = "xcodebuild" -> f.xcodebuildOk
                          [] OTHER -> TRUE)]

\* The shell that has found the script malformed: nothing ran, status 2.
ShellRejects == [trace |-> <<>>, status |-> 2, exited |-> TRUE]

\* sh -c of a script into which the values were pasted.
RunScript(cmd, values, env, errexit) ==
    IF \E v \in values : SyntaxError(v) THEN ShellRejects
    ELSE Exec(cmd, ShellStart, env, errexit, FALSE)

InitScript ==
    /\ shPath \in RemotePaths
    /\ \/ /\ shScript = "nuke"
          /\ shScheme = <<>>
          /\ shEnv \in {NukeEnv(fails, pasted) :
                         fails \in SUBSET (NukeCommands \cup
                                    IF PathParts(shPath) = 1 THEN {} ELSE {"cd_project"}),
                         pasted \in [PastedCommands(shPath, "path_cmd", {"path_cmd_ios"})
                                       -> PastedStatuses]}
       \/ /\ shScript = "build"
          /\ shScheme \in Schemes
          /\ shEnv \in {BuildEnv(f, pasted) :
                         f \in BuildFacts,
                         pasted \in [PastedCommands(shPath, "path_cmd", {"path_cmd"})
                                       \cup PastedCommands(shScheme, "scheme_cmd",
                                                           {"scheme_workspace_cmd",
                                                            "scheme_flags_cmd"})
                                       -> PastedStatuses]}
    /\ shRun = {}
    /\ ProfileUnused
    /\ PathUnused

\* The remote shell runs nuke_cmd.
RunNukeScript ==
    /\ shScript = "nuke"
    /\ shRun = {}
    /\ shRun' = {RunScript(NukeScript(shPath), {shPath}, shEnv, TRUE)}
    /\ UNCHANGED <<localVars, remoteVars, hwCores, hwRamMiB, hwProfile, wpPath, wpResult,
                   shScript, shPath, shScheme, shEnv>>

\* The remote shell runs build_cmd.
RunBuildScript ==
    /\ shScript = "build"
    /\ shRun = {}
    /\ shRun' = {RunScript(BuildScript(shPath, shScheme), {shPath, shScheme}, shEnv, FALSE)}
    /\ UNCHANGED <<localVars, remoteVars, hwCores, hwRamMiB, hwProfile, wpPath, wpResult,
                   shScript, shPath, shScheme, shEnv>>

NextScript == RunNukeScript \/ RunBuildScript

\* ------------------------------------------------------------------- Init

NoChild == [state |-> "none", code |-> 0]

\* The registry slot and the processes before any invocation.
InitRegistry(slots, stales) ==
    /\ registry \in slots
    /\ child \in {[p \in Procs |-> IF p = Stale THEN c ELSE NoChild] : c \in stales}

\* What one build command may write: stdout from outs, stderr from errs.
ScriptsOf(outs, errs) ==
    {[s \in StreamNames |-> IF s = "stdout" THEN o ELSE e] : o \in outs, e \in errs}

\* The invocations of execute_build in issued are about to be made.
InitLocal(issued, outs, errs) ==
    /\ script \in {[b \in Builds |-> IF b \in issued THEN f[b]
                                      ELSE [s \in StreamNames |-> <<>>]] :
                       f \in [issued -> ScriptsOf(outs, errs)]}
    /\ pc = [b \in Builds |-> IF b \in issued THEN "idle" ELSE "unused"]
    /\ pipe = [b \in Builds |-> [s \in StreamNames |-> <<>>]]
    /\ relay = [b \in Builds |-> [s \in StreamNames |-> "unborn"]]
    /\ emitted = [b \in Builds |-> [s \in StreamNames |-> <<>>]]
    /\ logBuffer = [b \in Builds |-> <<>>]
    /\ status = [b \in Builds |-> {}]
    /\ logPath = [b \in Builds |-> {}]
    /\ logWrite = [b \in Builds |-> {}]
    /\ files = {}
    /\ notices = [b \in Builds |-> <<>>]
    /\ archived = [b \in Builds |-> FALSE]
    /\ result = [b \in Builds |-> {}]
    /\ abortResult = NoAbort
    /\ now = 0
    /\ bufLock = [b \in Builds |-> {}]

\* The arguments build_type and turbo_mode of each invocation; nothing is
\* chosen yet.
InitPlan(types, turbos) ==
    /\ buildType \in [Builds -> types]
    /\ turboMode \in [Builds -> turbos]
    /\ task = [b \in Builds |-> {}]
    /\ wslCmd = [b \in Builds |-> {}]
    /\ artifact = [b \in Builds |-> {}]

\* ---------------------------------------------------------------- actions

\* abort_build refusing the handle of a process that is no longer running.
AbortBuildRejectsFinished ==
    /\ IF registry # {}
       THEN LET p == CHOOSE q \in registry : TRUE IN
            /\ child' = KillProc(child, p)
            /\ abortResult' = [ok |-> child[p].state = "running", msg |-> "Build Aborted",
                               took |-> {p}]
       ELSE /\ child' = child
            /\ abortResult' = [ok |-> TRUE, msg |-> "No active build", took |-> {}]
    /\ registry' = {}
    /\ UNCHANGED <<remoteVars, pureVars, now, bufLock, planVars, script, pc, pipe, relay, emitted,
                   logBuffer, status, logPath, logWrite, files, notices, archived, result>>

\* abort_build: take the registered handle, kill it (the kill's result is
\* dropped), report.
AbortBuild ==
    /\ IF registry # {}
       THEN LET p == CHOOSE q \in registry : TRUE IN
            /\ child' = KillProc(child, p)
            /\ abortResult' = [ok |-> TRUE, msg |-> "Build Aborted", took |-> {p}]
       ELSE /\ child' = child
            /\ abortResult' = [ok |-> TRUE, msg |-> "No active build", took |-> {}]
    /\ registry' = {}
    /\ UNCHANGED <<remoteVars, pureVars, now, bufLock, planVars, script, pc, pipe, relay, emitted,
                   logBuffer, status, logPath, logWrite, files, notices, archived, result>>

\* Every build type gives the package artifact.
OutputArtifactAlwaysApk(t) ==
    [subpath |-> "android/app/build/outputs/apk/debug/app-debug.apk", ext |-> "apk"]

\* match build_type.as_str() { "aab" => "bundleDebug", _ => "assembleDebug" }
GradleTask(t) == IF t = "aab" THEN "bundleDebug" ELSE "assembleDebug"

\* match build_type.as_str() { "aab" => (bundle path, "aab"), _ => (apk path, "apk") }
OutputArtifact(t) ==
    IF t = "aab"
    THEN [subpath |-> "android/app/build/outputs/bundle/debug/app-debug.aab", ext |-> "aab"]
    ELSE [subpath |-> "android/app/build/outputs/apk/debug/app-debug.apk", ext |-> "apk"]

\* wsl_cmd: "./gradlew {task} .." in turbo mode, "npx eas build .." otherwise.
WslCmd(turbo, t) ==
    IF turbo THEN [tool |-> "gradlew", task |-> {t}] ELSE [tool |-> "eas", task |-> {}]

\* execute_build up to "Kill orphans": choose the task, build the command
\* line, take whatever is registered and kill it.
KillOrphans(b) ==
    /\ pc[b] = "idle"
    /\ task' = [task EXCEPT ![b] = {GradleTask(buildType[b])}]
    /\ wslCmd' = [wslCmd EXCEPT ![b] = {WslCmd(turboMode[b], GradleTask(buildType[b]))}]
    /\ child' = IF registry # {}
                THEN KillProc(child, CHOOSE q \in registry : TRUE)
                ELSE child
    /\ registry' = {}
    /\ pc' = [pc EXCEPT ![b] = "spawn"]
    /\ UNCHANGED <<remoteVars, pureVars, now, bufLock, buildType, turboMode, artifact, script, pipe, relay, emitted, logBuffer, status, logPath, logWrite,
                   files, notices, archived, result, abortResult>>

\* execute_build: Command::spawn succeeded; the pipes are taken, the log buffer
\* is created and the two relay threads are started.  The handle stays a local.
SpawnOk(b) ==
    /\ pc[b] = "spawn"
    /\ child' = [child EXCEPT ![b] = [state |-> "running", code |-> 0]]
    /\ pipe' = [pipe EXCEPT ![b] = script[b]]
    /\ relay' = [relay EXCEPT ![b] = [s \in StreamNames |-> "running"]]
    /\ pc' = [pc EXCEPT ![b] = "join1"]
    /\ UNCHANGED <<remoteVars, pureVars, now, bufLock, planVars, registry, script, emitted, logBuffer, status, logPath, logWrite, files,
                   notices, archived, result, abortResult>>

\* execute_build: Command::spawn failed, the error is returned.
SpawnFail(b) ==
    /\ pc[b] = "spawn"
    /\ result' = [result EXCEPT ![b] = {Err("spawn failed")}]
    /\ pc' = [pc EXCEPT ![b] = "done"]
    /\ UNCHANGED <<remoteVars, pureVars, now, bufLock, planVars, registry, child, script, pipe, relay, emitted, logBuffer,
                   status, logPath, logWrite, files, notices, archived, abortResult>>

\* The build command ends by itself with some exit code.
ChildExit(p) ==
    /\ child[p].state = "running"
    /\ \E c \in ExitCodes : child' = [child EXCEPT ![p] = [state |-> "exited", code |-> c]]
    /\ UNCHANGED <<remoteVars, pureVars, now, bufLock, planVars, registry, script, pc, pipe, relay, emitted, logBuffer, status,
                   logPath, logWrite, files, notices, archived, result, abortResult>>

\* One turn of a relay thread's loop over BufReader::lines().map_while(Result::ok),
\* up to the emit: the line is read and sent; the relay then asks for the lock.
RelayStep(b, s) ==
    /\ relay[b][s] = "running"
    /\ LET n == NextLine(pipe[b][s], PipeClosed(b)) IN
       /\ n.kind # "block"
       /\ pipe' = [pipe EXCEPT ![b][s] = n.rest]
       /\ IF n.kind = "eof"
          THEN /\ relay' = [relay EXCEPT ![b][s] = "eof"]
               /\ UNCHANGED emitted
          ELSE IF ValidUtf8(n.bytes)
          THEN /\ emitted' = [emitted EXCEPT ![b][s] = Append(@, n.bytes)]
               /\ relay' = [relay EXCEPT ![b][s] = "locking"]
          ELSE /\ relay' = [relay EXCEPT ![b][s] = "invalid"]
               /\ UNCHANGED emitted
    /\ UNCHANGED <<remoteVars, pureVars, now, bufLock, planVars, registry, child, script, pc, logBuffer,
                   status, logPath, logWrite, files, notices, archived, result, abortResult>>

\* A relay that takes the buffer whether or not the lock is free.
RelayLockBarges(b, s) ==
    /\ relay[b][s] = "locking"
    /\ bufLock' = [bufLock EXCEPT ![b] = {s}]
    /\ relay' = [relay EXCEPT ![b][s] = "holding"]
    /\ UNCHANGED <<remoteVars, pureVars, now, planVars, registry, child, script, pc, pipe, emitted,
                   logBuffer, status, logPath, logWrite, files, notices, archived, result, abortResult>>

\* buf.lock().unwrap(): the relay gets the mutex once nobody holds it.
RelayLock(b, s) ==
    /\ relay[b][s] = "locking"
    /\ bufLock[b] = {}
    /\ bufLock' = [bufLock EXCEPT ![b] = {s}]
    /\ relay' = [relay EXCEPT ![b][s] = "holding"]
    /\ UNCHANGED <<remoteVars, pureVars, now, planVars, registry, child, script, pc, pipe, emitted,
                   logBuffer, status, logPath, logWrite, files, notices, archived, result, abortResult>>

\* The line the relay has just sent.
LastEmitted(b, s) == emitted[b][s][Len(emitted[b][s])]

\* A relay that puts its entry in front of what the buffer holds.
RelayPushPrepend(b, s) ==
    /\ relay[b][s] = "holding"
    /\ logBuffer' = [logBuffer EXCEPT ![b] =
                        <<[src |-> s, text |-> LineEntry(LastEmitted(b, s))]>> \o @]
    /\ bufLock' = [bufLock EXCEPT ![b] = {}]
    /\ relay' = [relay EXCEPT ![b][s] = "running"]
    /\ UNCHANGED <<remoteVars, pureVars, now, planVars, registry, child, script, pc, pipe, emitted,
                   status, logPath, logWrite, files, notices, archived, result, abortResult>>

\* .push_str(&format!("{}\n", line)) under the guard, which is then dropped.
RelayPush(b, s) ==
    /\ relay[b][s] = "holding"
    /\ logBuffer' = [logBuffer EXCEPT ![b] =
                        Append(@, [src |-> s, text |-> LineEntry(LastEmitted(b, s))])]
    /\ bufLock' = [bufLock EXCEPT ![b] = {}]
    /\ relay' = [relay EXCEPT ![b][s] = "running"]
    /\ UNCHANGED <<remoteVars, pureVars, now, planVars, registry, child, script, pc, pipe, emitted,
                   status, logPath, logWrite, files, notices, archived, result, abortResult>>

\* The pipe read fails: lines() yields Err and map_while ends the loop.
RelayReadError(b, s) ==
    /\ relay[b][s] = "running"
    /\ relay' = [relay EXCEPT ![b][s] = "ioerr"]
    /\ UNCHANGED <<remoteVars, pureVars, now, bufLock, planVars, registry, child, script, pc, pipe, emitted, logBuffer, status,
                   logPath, logWrite, files, notices, archived, result, abortResult>>

RelayOver(b, s) == relay[b][s] \in {"eof", "invalid", "ioerr"}

\* t1.join()
JoinStdout(b) ==
    /\ pc[b] = "join1"
    /\ RelayOver(b, "stdout")
    /\ pc' = [pc EXCEPT ![b] = "join2"]
    /\ UNCHANGED <<remoteVars, pureVars, now, bufLock, planVars, registry, child, script, pipe, relay, emitted, logBuffer,
                   status, logPath, logWrite, files, notices, archived, result, abortResult>>

\* The controller goes on without joining the stderr relay.
JoinStderrSkipped(b) ==
    /\ pc[b] = "join2"
    /\ pc' = [pc EXCEPT ![b] = "wait"]
    /\ UNCHANGED <<remoteVars, pureVars, now, bufLock, planVars, registry, child, script, pipe, relay, emitted, logBuffer,
                   status, logPath, logWrite, files, notices, archived, result, abortResult>>

\* t2.join()
JoinStderr(b) ==
    /\ pc[b] = "join2"
    /\ RelayOver(b, "stderr")
    /\ pc' = [pc EXCEPT ![b] = "wait"]
    /\ UNCHANGED <<remoteVars, pureVars, now, bufLock, planVars, registry, child, script, pipe, relay, emitted, logBuffer,
                   status, logPath, logWrite, files, notices, archived, result, abortResult>>

\* child.wait() returns the exit status once the child is gone.
WaitChild(b) ==
    /\ pc[b] = "wait"
    /\ child[b].state # "running"
    /\ status' = [status EXCEPT ![b] = {child[b].code}]
    /\ pc' = [pc EXCEPT ![b] = "log"]
    /\ UNCHANGED <<remoteVars, pureVars, now, bufLock, planVars, registry, child, script, pipe, relay, emitted, logBuffer,
                   logPath, logWrite, files, notices, archived, result, abortResult>>

\* child.wait() fails, the error is returned.
WaitFail(b) ==
    /\ pc[b] = "wait"
    /\ result' = [result EXCEPT ![b] = {Err("wait failed")}]
    /\ pc' = [pc EXCEPT ![b] = "done"]
    /\ UNCHANGED <<remoteVars, pureVars, now, bufLock, planVars, registry, child, script, pipe, relay, emitted, logBuffer,
                   status, logPath, logWrite, files, notices, archived, abortResult>>

StatusOf(b) == CHOOSE c \in status[b] : TRUE

\* The prefixes of the two branches swapped.
LocalPrefixSwapped(code) ==
    IF Success(code) THEN "android_build_fail" ELSE "android_build_success"

LocalPrefix(code) ==
    IF Success(code) THEN "android_build_success" ELSE "android_build_fail"

\* <prefix>_<time to the second>.<ext>
StampedPath(prefix, t, ext) == [prefix |-> prefix, stamp |-> t, ext |-> ext]

\* std::fs::write(path, content) on a directory: k = -1, the file could not be
\* created and the directory is as before; otherwise the file is created or
\* truncated and holds the first k bytes, all of them when the write succeeded.
WriteFile(dir, path, content, k) ==
    IF k = -1 THEN dir
    ELSE {f \in dir : f.path # path} \cup {[path |-> path, content |-> SubSeq(content, 1, k)]}

\* A second passes.
Tick ==
    /\ now < MaxStamp
    /\ now' = now + 1
    /\ UNCHANGED <<remoteVars, pureVars, bufLock, planVars, registry, child, script, pc, pipe,
                   relay, emitted, logBuffer, status, logPath, logWrite, files, notices,
                   archived, result, abortResult>>

\* "ALWAYS write logs": the directory and the write may each fail, unnoticed;
\* the path is named by the outcome and the second of the clock.
PersistLog(b) ==
    /\ pc[b] = "log"
    /\ bufLock[b] = {}
    /\ \E dirOk \in BOOLEAN, k \in -1..Len(BufferText(b)) :
          LET path == StampedPath(LocalPrefix(StatusOf(b)), now, "log") IN
          /\ ~dirOk => k = -1
          /\ logPath' = [logPath EXCEPT ![b] = {path}]
          /\ files' = WriteFile(files, path, BufferText(b), k)
          /\ logWrite' = [logWrite EXCEPT ![b] = {k = Len(BufferText(b))}]
          /\ notices' = [notices EXCEPT ![b] =
                            Append(@, [msg |-> "Log saved to", path |-> {path}])]
    /\ pc' = [pc EXCEPT ![b] = "classify"]
    /\ UNCHANGED <<remoteVars, pureVars, now, bufLock, planVars, registry, child, script, pipe, relay,
                   emitted, logBuffer, status, result, archived, abortResult>>

\* execute_build classifying by the presence of the artifact.
LocalOutcomeByArtifact(code, path, exists, fresh) ==
    IF exists
    THEN IF fresh THEN Ok("Build completed! (Fresh APK)")
                  ELSE Ok("Build completed! (Cached - no code changes)")
    ELSE IF Success(code) THEN Ok("Build completed!")
    ELSE [Err("Build failed. Log") EXCEPT !.path = {path}]

\* execute_build returning its Failure without the log path.
LocalOutcomeNoPath(code, path, exists, fresh) ==
    IF Success(code)
    THEN IF exists
         THEN IF fresh THEN Ok("Build completed! (Fresh APK)")
                       ELSE Ok("Build completed! (Cached - no code changes)")
         ELSE Ok("Build completed!")
    ELSE Err("Build failed")

\* The value execute_build returns for an exit code, given the artifact's state.
LocalOutcome(code, path, exists, fresh) ==
    IF Success(code)
    THEN IF exists
         THEN IF fresh THEN Ok("Build completed! (Fresh APK)")
                       ELSE Ok("Build completed! (Cached - no code changes)")
         ELSE Ok("Build completed!")
    ELSE [Err("Build failed. Log") EXCEPT !.path = {path}]

\* ext.to_uppercase()
UpperExt(ext) == IF ext = "aab" THEN "AAB" ELSE "APK"

\* What the controller emits after a successful copy into the archive: the
\* destination app-debug_<time to the second>.<ext>, then fresh or cached.
ArchiveNotices(ext, t, fresh) ==
    <<[msg |-> "Saved to", path |-> {StampedPath("app-debug", t, ext)}],
      [msg |-> IF fresh
               THEN IF UpperExt(ext) = "AAB" THEN "New AAB archived!" ELSE "New APK archived!"
               ELSE IF UpperExt(ext) = "AAB" THEN "Cached AAB (code unchanged)"
                                             ELSE "Cached APK (code unchanged)",
       path |-> {}]>>

\* An archive copy that fails makes the build fail.
FinishCopyEscalates(b) ==
    /\ pc[b] = "classify"
    /\ \E exists \in BOOLEAN, fresh \in BOOLEAN, copyOk \in BOOLEAN :
          /\ (~exists => ~fresh /\ ~copyOk)
          /\ result' = [result EXCEPT ![b] =
                 {IF Success(StatusOf(b)) /\ exists /\ ~copyOk
                  THEN Err("Copy failed")
                  ELSE LocalOutcome(StatusOf(b), CHOOSE p \in logPath[b] : TRUE, exists, fresh)}]
          /\ archived' = [archived EXCEPT ![b] = Success(StatusOf(b)) /\ exists /\ copyOk]
          /\ notices' = [notices EXCEPT ![b] =
                 IF Success(StatusOf(b)) /\ exists /\ copyOk
                 THEN @ \o ArchiveNotices(OutputArtifact(buildType[b]).ext, now, fresh)
                 ELSE @]
    /\ artifact' = [artifact EXCEPT ![b] =
                       IF Success(StatusOf(b)) THEN {OutputArtifact(buildType[b])} ELSE {}]
    /\ pc' = [pc EXCEPT ![b] = "done"]
    /\ UNCHANGED <<remoteVars, pureVars, now, bufLock, buildType, turboMode, task, wslCmd, registry,
                   child, script, pipe, relay, emitted, logBuffer, status, logPath, logWrite,
                   files, abortResult>>

\* The archive step and the return of execute_build.
Finish(b) ==
    /\ pc[b] = "classify"
    /\ \E exists \in BOOLEAN, fresh \in BOOLEAN, copyOk \in BOOLEAN :
          /\ (~exists => ~fresh /\ ~copyOk)
          /\ result' = [result EXCEPT ![b] =
                 {LocalOutcome(StatusOf(b), CHOOSE p \in logPath[b] : TRUE, exists, fresh)}]
          /\ archived' = [archived EXCEPT ![b] = Success(StatusOf(b)) /\ exists /\ copyOk]
          /\ notices' = [notices EXCEPT ![b] =
                 IF Success(StatusOf(b)) /\ exists /\ copyOk
                 THEN @ \o ArchiveNotices(OutputArtifact(buildType[b]).ext, now, fresh)
                 ELSE @]
    /\ artifact' = [artifact EXCEPT ![b] =
                       IF Success(StatusOf(b)) THEN {OutputArtifact(buildType[b])} ELSE {}]
    /\ pc' = [pc EXCEPT ![b] = "done"]
    /\ UNCHANGED <<remoteVars, pureVars, now, bufLock, buildType, turboMode, task, wslCmd, registry,
                   child, script, pipe, relay, emitted, logBuffer, status, logPath, logWrite,
                   files, abortResult>>

NextLocal ==
    \/ AbortBuild
    \/ \E b \in Builds :
          \/ KillOrphans(b)
          \/ SpawnOk(b)
          \/ SpawnFail(b)
          \/ JoinStdout(b)
          \/ JoinStderr(b)
          \/ WaitChild(b)
          \/ WaitFail(b)
          \/ PersistLog(b)
          \/ Finish(b)
    \/ \E p \in Procs : ChildExit(p)
    \/ \E b \in Builds, s \in StreamNames :
          \/ RelayStep(b, s)
          \/ RelayLock(b, s)
          \/ RelayPush(b, s)
          \/ RelayReadError(b, s)

\* ------------------------------------------------- remote operations

\* parse_ip_and_port: split_once(':'), the port defaults to "22".
ParseIpAndPort(input) ==
    LET colons == {i \in 1..Len(input) : input[i] = ":"} IN
    IF colons = {}
    THEN [ip |-> input, port |-> <<"2", "2">>]
    ELSE LET i == CHOOSE k \in colons : \A j \in colons : k <= j IN
         [ip |-> SubSeq(input, 1, i - 1), port |-> SubSeq(input, i + 1, Len(input))]

\* A key path that is set counts, the empty one too.
HasKeyNonNull(cfg) == cfg.keyPath # {}

\* config.ssh_key_path.as_ref().map(|k| !k.is_empty()).unwrap_or(false)
HasKey(cfg) == \E k \in cfg.keyPath : k # <<>>

\* A password that is set counts, the empty one too.
HasPasswordNonNull(cfg) == cfg.password # {}

\* config.password.as_ref().map(|p| !p.is_empty()).unwrap_or(false)
HasPassword(cfg) == \E w \in cfg.password : w # <<>>

\* What the network and the file system answer to create_session.
Envs == [connect : BOOLEAN, handshake : BOOLEAN, keyExists : BOOLEAN,
         keyAuth : BOOLEAN, pwAuth : BOOLEAN, authenticated : BOOLEAN]

\* create_session after a userauth call returned Ok: sess.authenticated().
Authenticated(env, ops) ==
    IF env.authenticated
    THEN [res |-> "ok", ops |-> ops]
    ELSE [res |-> "Authentication failed", ops |-> ops]

\* create_session: its result ("ok" or the error) and the network and
\* authentication operations it attempted, in order.
CreateSession(cfg, env) ==
    IF ParseIpAndPort(cfg.ip).ip = <<>>
    THEN [res |-> "Connection failed: IP address is empty", ops |-> <<>>]
    ELSE IF cfg.username = <<>>
    THEN [res |-> "Connection failed: Username is empty", ops |-> <<>>]
    ELSE IF ~env.connect
    THEN [res |-> "Connection failed: Cannot reach", ops |-> <<"tcp_connect">>]
    ELSE IF ~env.handshake
    THEN [res |-> "SSH Handshake failed", ops |-> <<"tcp_connect", "handshake">>]
    ELSE IF HasKey(cfg)
    THEN IF ~env.keyExists
         THEN [res |-> "SSH Key file not found", ops |-> <<"tcp_connect", "handshake">>]
         ELSE IF ~env.keyAuth
         THEN [res |-> "SSH Key auth failed",
               ops |-> <<"tcp_connect", "handshake", "auth_key">>]
         ELSE Authenticated(env, <<"tcp_connect", "handshake", "auth_key">>)
    ELSE IF HasPassword(cfg)
    THEN IF ~env.pwAuth
         THEN [res |-> "Password auth failed",
               ops |-> <<"tcp_connect", "handshake", "auth_password">>]
         ELSE Authenticated(env, <<"tcp_connect", "handshake", "auth_password">>)
    ELSE [res |-> "No credentials provided", ops |-> <<"tcp_connect", "handshake">>]

\* Every command gets a log buffer.
HasLogBufferAlways(op) == TRUE

\* The log_buffer argument of run_remote_command is Some: the build passes
\* Some(&log_buffer), the recovery passes None.
HasLogBuffer(op) == op = "build"

\* The network-log entry of the exec of the operation's command.
ExecEntry(op) == IF op = "build" THEN "exec_build" ELSE "exec_nuke"

\* Where the caller of run_remote_command goes on: execute_turbo_ios writes
\* the log, nuke_ios_remote returns.
AfterCommand(op) == IF op = "build" THEN "rlog" ELSE "ret"

\* A MacConfig that create_session accepts: a key path and no password.
KeyConfig == [ip |-> <<"1">>, username |-> <<"u">>, password |-> {}, keyPath |-> {<<"k">>}]

RemoteUnused ==
    /\ xcode = TRUE
    /\ rscript = <<>>
    /\ rpc = "unused"
    /\ rchan = <<>>
    /\ rend = "none"
    /\ remitted = <<>>
    /\ rbuffer = <<>>
    /\ rcmd = {}
    /\ rstatus = {}
    /\ rlogPath = {}
    /\ rlogWrite = {}
    /\ rfile = {}
    /\ rnotices = <<>>
    /\ rresult = {}
    /\ rop = "none"
    /\ config = KeyConfig
    /\ netlog = <<>>
    /\ rsess = {}
    /\ rreply = {}

\* One remote command (start_ios_build or trigger_nuke_ios) is about to be made.
InitRemote(ops, configs, chans) ==
    /\ xcode \in BOOLEAN
    /\ rscript \in chans
    /\ rpc = "idle"
    /\ rchan = <<>>
    /\ rend = "none"
    /\ remitted = <<>>
    /\ rbuffer = <<>>
    /\ rcmd = {}
    /\ rstatus = {}
    /\ rlogPath = {}
    /\ rlogWrite = {}
    /\ rfile = {}
    /\ rnotices = <<>>
    /\ rresult = {}
    /\ rop \in ops
    /\ config \in configs
    /\ netlog = <<>>
    /\ rsess = {}
    /\ rreply = {}

\* The errors create_session returns.
SessionErrors ==
    {"Connection failed: IP address is empty", "Connection failed: Username is empty",
     "Connection failed: Cannot reach", "SSH Handshake failed", "SSH Key file not found",
     "SSH Key auth failed", "Password auth failed", "No credentials provided",
     "Authentication failed"}

\* The String log_buffer of execute_turbo_ios holds.
RemoteBufferText == Flatten(rbuffer)

Notice(m) == [msg |-> m, path |-> {}]

\* start_ios_build: thread::spawn, the worker thread exists.
RStartIosBuild ==
    /\ rpc = "idle"
    /\ rop = "build"
    /\ rpc' = "sync"
    /\ UNCHANGED <<localVars, pureVars, xcode, rscript, rchan, rend, remitted, rbuffer, rcmd,
                   rstatus, rlogPath, rlogWrite, rfile, rnotices, rresult, rop, config, netlog,
                   rsess, rreply>>

\* trigger_nuke_ios: thread::spawn, the worker thread exists.
RTriggerNuke ==
    /\ rpc = "idle"
    /\ rop = "nuke"
    /\ rpc' = "session"
    /\ UNCHANGED <<localVars, pureVars, xcode, rscript, rchan, rend, remitted, rbuffer, rcmd,
                   rstatus, rlogPath, rlogWrite, rfile, rnotices, rresult, rop, config, netlog,
                   rsess, rreply>>

\* What the command returns once it has spawned its worker.
Ignited(op) == Ok(IF op = "build" THEN "Sync & Build Ignited" ELSE "Nuke Ignited")

\* start_ios_build / trigger_nuke_ios returns; the worker, already running,
\* may have come any distance by then.
RReturn ==
    /\ rpc \notin {"idle", "unused"}
    /\ rreply = {}
    /\ rreply' = {Ignited(rop)}
    /\ UNCHANGED <<localVars, pureVars, xcode, rscript, rpc, rchan, rend, remitted, rbuffer, rcmd,
                   rstatus, rlogPath, rlogWrite, rfile, rnotices, rresult, rop, config, netlog,
                   rsess>>

\* The worker of start_ios_build announces the synchronisation.
RSyncEmit ==
    /\ rpc = "sync"
    /\ rnotices' = Append(rnotices, Notice("Syncing files to Mac"))
    /\ rpc' = "synclaunch"
    /\ UNCHANGED <<localVars, pureVars, xcode, rscript, rchan, rend, remitted, rbuffer, rcmd,
                   rstatus, rlogPath, rlogWrite, rfile, rresult, rop, config, netlog, rsess,
                   rreply>>

\* sync_files runs "wsl rsync ... -e ssh user@ip:path" with whatever the
\* config holds.  The launch of wsl may fail; otherwise rsync is running.
RSyncLaunch ==
    /\ rpc = "synclaunch"
    /\ \/ /\ rnotices' = Append(rnotices, Notice("Sync Failed"))
          /\ rpc' = "done"
          /\ UNCHANGED netlog
       \/ /\ netlog' = Append(netlog, "rsync")
          /\ rpc' = "syncwait"
          /\ UNCHANGED rnotices
    /\ UNCHANGED <<localVars, pureVars, xcode, rscript, rchan, rend, remitted, rbuffer, rcmd,
                   rstatus, rlogPath, rlogWrite, rfile, rresult, rop, config, rsess, rreply>>

\* A worker that goes on to execute_turbo_ios whatever sync_files returned.
RSyncFilesIgnoresFailure ==
    /\ rpc = "syncwait"
    /\ \E out \in {"failed", "synced"} :
          /\ rnotices' = Append(rnotices,
                                Notice(IF out = "synced" THEN "Sync Complete" ELSE "Sync Failed"))
          /\ rpc' = "session"
    /\ UNCHANGED <<localVars, pureVars, xcode, rscript, rchan, rend, remitted, rbuffer, rcmd,
                   rstatus, rlogPath, rlogWrite, rfile, rresult, rop, config, netlog, rsess,
                   rreply>>

\* rsync has ended and sync_files returns: the worker reports the outcome and
\* goes on to execute_turbo_ios only after success.
RSyncFiles ==
    /\ rpc = "syncwait"
    /\ \E out \in {"failed", "synced"} :
          /\ rnotices' = Append(rnotices,
                                Notice(IF out = "synced" THEN "Sync Complete" ELSE "Sync Failed"))
          /\ rpc' = IF out = "synced" THEN "session" ELSE "done"
    /\ UNCHANGED <<localVars, pureVars, xcode, rscript, rchan, rend, remitted, rbuffer, rcmd,
                   rstatus, rlogPath, rlogWrite, rfile, rresult, rop, config, netlog, rsess,
                   rreply>>

\* An early error does not end the operation.
ReturnEarlyGoesOn(m) ==
    /\ rresult' = {Err(m)}
    /\ rpc' = "build"

\* execute_turbo_ios / nuke_ios_remote returns early with an error: no log
\* is written.
ReturnEarly(m) ==
    /\ rresult' = {Err(m)}
    /\ rpc' = "report"

\* The network and authentication operations of the session so far.
NotRsync(e) == e # "rsync"
SessionOps == SelectSeq(netlog, NotRsync)

\* create_session(&config)?, one blocking call at a time: the next call of
\* the session is made, or, the last call made having returned, no further
\* one follows and create_session returns; then the first emit of
\* nuke_ios_remote.
RCreateSession ==
    /\ rpc = "session"
    /\ \E env \in Envs :
          LET r == CreateSession(config, env) IN
          /\ IsPrefix(SessionOps, r.ops)
          /\ IF Len(SessionOps) < Len(r.ops)
             THEN /\ netlog' = Append(netlog, r.ops[Len(SessionOps) + 1])
                  /\ UNCHANGED <<rsess, rpc, rnotices, rresult>>
             ELSE /\ UNCHANGED netlog
                  /\ rsess' = {r.res}
                  /\ IF r.res = "ok"
                     THEN /\ rpc' = IF rop = "build" THEN "preflight" ELSE "build"
                          /\ rnotices' =
                                IF rop = "build" THEN rnotices
                                ELSE Append(rnotices,
                                            Notice("Initiating NUCLEAR iOS Recovery Sequence"))
                          /\ UNCHANGED rresult
                     ELSE /\ ReturnEarly(r.res)
                          /\ UNCHANGED rnotices
    /\ UNCHANGED <<localVars, pureVars, xcode, rscript, rchan, rend, remitted, rbuffer, rcmd,
                   rstatus, rlogPath, rlogWrite, rfile, rop, config, rreply>>

\* What the pre-flight channel printed, as far as read_to_string got it.
PreflightSeesMarker(present, readComplete) == ~present /\ readComplete

\* execute_turbo_ios announces the pre-flight check.
RPreflight ==
    /\ rpc = "preflight"
    /\ rnotices' = Append(rnotices, Notice("Running pre-flight environment check"))
    /\ rpc' = "pfopen"
    /\ UNCHANGED <<localVars, pureVars, xcode, rscript, rchan, rend, remitted, rbuffer, rcmd,
                   rstatus, rlogPath, rlogWrite, rfile, rresult, rop, config, netlog, rsess,
                   rreply>>

\* The pre-flight channel is opened and "which xcodebuild || echo
\* 'XCODE_NOT_FOUND'" is submitted on it.
RPreflightExec ==
    /\ rpc = "pfopen"
    /\ \/ /\ ReturnEarly("Pre-flight check failed")
          /\ UNCHANGED netlog
       \/ /\ netlog' = Append(netlog, "exec_preflight")
          /\ rpc' = "pfread"
          /\ UNCHANGED rresult
    /\ UNCHANGED <<localVars, pureVars, xcode, rscript, rchan, rend, remitted, rbuffer, rcmd,
                   rstatus, rlogPath, rlogWrite, rfile, rnotices, rop, config, rsess, rreply>>

\* The submission has failed, or the output of the check has been read to
\* its end, the channel closed and the output looked at.
RPreflightRead ==
    /\ rpc = "pfread"
    /\ \/ /\ ReturnEarly("Pre-flight exec failed")
          /\ UNCHANGED rnotices
       \/ \E readComplete \in BOOLEAN :
             IF PreflightSeesMarker(xcode, readComplete)
             THEN /\ ReturnEarly("Remote environment invalid")
                  /\ rnotices' = Append(rnotices, Notice("Pre-flight FAILED"))
             ELSE /\ rpc' = "build"
                  /\ rnotices' = rnotices \o
                        <<Notice("Pre-flight passed"),
                          Notice("Initializing Resilient Turbo Build")>>
                  /\ UNCHANGED rresult
    /\ UNCHANGED <<localVars, pureVars, xcode, rscript, rchan, rend, remitted, rbuffer, rcmd,
                   rstatus, rlogPath, rlogWrite, rfile, rop, config, netlog, rsess, rreply>>

\* run_remote_command: channel_session.
ROpenChannel ==
    /\ rpc = "build"
    /\ \/ /\ rpc' = "exec"
          /\ UNCHANGED rcmd
       \/ /\ rcmd' = {Err("Failed to open channel")}
          /\ rpc' = AfterCommand(rop)
    /\ UNCHANGED <<localVars, pureVars, xcode, rscript, rchan, rend, remitted, rbuffer,
                   rstatus, rlogPath, rlogWrite, rfile, rnotices, rresult, rop, config,
                   netlog, rsess, rreply>>

\* channel.exec(command): the request is on its way to the host.
RExec ==
    /\ rpc = "exec"
    /\ netlog' = Append(netlog, ExecEntry(rop))
    /\ rpc' = "execwait"
    /\ UNCHANGED <<localVars, pureVars, xcode, rscript, rchan, rend, remitted, rbuffer, rcmd,
                   rstatus, rlogPath, rlogWrite, rfile, rnotices, rresult, rop, config, rsess,
                   rreply>>

\* The host's answer: the command runs, or exec returns an error.
RExecReply ==
    /\ rpc = "execwait"
    /\ \/ /\ rchan' = rscript
          /\ rpc' = "read"
          /\ UNCHANGED rcmd
       \/ /\ rcmd' = {Err("Failed to exec command")}
          /\ rpc' = AfterCommand(rop)
          /\ UNCHANGED rchan
    /\ UNCHANGED <<localVars, pureVars, xcode, rscript, rend, remitted, rbuffer, rstatus,
                   rlogPath, rlogWrite, rfile, rnotices, rresult, rop, config, netlog, rsess,
                   rreply>>

\* One turn of run_remote_command's read loop that got n > 0 bytes.
RReadChunk ==
    /\ rpc = "read"
    /\ \E n \in 1..Min(BufSize, Len(rchan)) :
          LET output == Utf8Lossy(SubSeq(rchan, 1, n)) IN
          /\ remitted' = Append(remitted, output)
          /\ rbuffer' = IF HasLogBuffer(rop) THEN Append(rbuffer, output) ELSE rbuffer
          /\ rchan' = SubSeq(rchan, n + 1, Len(rchan))
    /\ UNCHANGED <<localVars, pureVars, xcode, rscript, rpc, rend, rcmd, rstatus, rlogPath, rlogWrite,
                   rfile, rnotices, rresult, rop, config, netlog, rsess, rreply>>

\* The read returns 0 at end-of-stream, or fails: unwrap_or(0); the loop breaks.
RReadEnd ==
    /\ rpc = "read"
    /\ \/ /\ rchan = <<>>
          /\ rend' = "eof"
       \/ rend' = "ioerr"
    /\ rpc' = "close"
    /\ UNCHANGED <<localVars, pureVars, xcode, rscript, rchan, remitted, rbuffer, rcmd, rstatus,
                   rlogPath, rlogWrite, rfile, rnotices, rresult, rop, config, netlog, rsess, rreply>>

\* What run_remote_command returns for an exit status.
RemoteCommandResult(st) ==
    IF st # 0
    THEN [Err("Command failed with exit code") EXCEPT !.code = {st}]
    ELSE Ok("")

\* A failed command is run again.
RCloseRetries ==
    /\ rpc = "close"
    /\ \E st \in RemoteStatuses :
          /\ rstatus' = {st}
          /\ rcmd' = {RemoteCommandResult(st)}
          /\ rpc' = IF st # 0 /\ rcmd = {} THEN "build" ELSE AfterCommand(rop)
    /\ UNCHANGED <<localVars, pureVars, xcode, rscript, rchan, rend, remitted, rbuffer,
                   rlogPath, rlogWrite, rfile, rnotices, rresult, rop, config, netlog, rsess, rreply>>

\* wait_close, exit_status().unwrap_or(-1), and the return of run_remote_command.
RClose ==
    /\ rpc = "close"
    /\ \E st \in RemoteStatuses :
          /\ rstatus' = {st}
          /\ rcmd' = {RemoteCommandResult(st)}
    /\ rpc' = AfterCommand(rop)
    /\ UNCHANGED <<localVars, pureVars, xcode, rscript, rchan, rend, remitted, rbuffer,
                   rlogPath, rlogWrite, rfile, rnotices, rresult, rop, config, netlog, rsess, rreply>>

RemotePrefix(res) == IF res.ok THEN "ios_build_success" ELSE "ios_build_fail"

\* "ALWAYS write logs": only when a home directory is known; the directory and
\* the write may each fail, unnoticed.
RPersistLog ==
    /\ rpc = "rlog"
    /\ \/ /\ UNCHANGED <<rlogPath, rlogWrite, rfile, rnotices>>
       \/ \E dirOk \in BOOLEAN, k \in -1..Len(RemoteBufferText) :
             LET path == StampedPath(RemotePrefix(CHOOSE r \in rcmd : TRUE), now, "log") IN
             /\ ~dirOk => k = -1
             /\ rlogPath' = {path}
             /\ rfile' = WriteFile({}, path, RemoteBufferText, k)
             /\ rlogWrite' = {k = Len(RemoteBufferText)}
             /\ rnotices' = Append(rnotices, [msg |-> "Log saved to", path |-> {path}])
    /\ rpc' = "ret"
    /\ UNCHANGED <<localVars, pureVars, xcode, rscript, rchan, rend, remitted, rbuffer, rcmd,
                   rstatus, rresult, rop, config, netlog, rsess, rreply>>

\* The value execute_turbo_ios returns for run_remote_command's result.
RemoteOutcome(res) ==
    IF res.ok THEN Ok("iOS Build Completed Successfully via Satellite") ELSE res

\* The value nuke_ios_remote returns for run_remote_command's result.
NukeOutcome(res) ==
    IF res.ok THEN Ok("Recovery Sequence Finished") ELSE res

\* match result { Ok(_) => Ok(..), Err(e) => Err(e) }, and
\* run_remote_command(..)?; Ok(..) of nuke_ios_remote.
RFinish ==
    /\ rpc = "ret"
    /\ rresult' = {IF rop = "build" THEN RemoteOutcome(CHOOSE r \in rcmd : TRUE)
                   ELSE NukeOutcome(CHOOSE r \in rcmd : TRUE)}
    /\ rpc' = "report"
    /\ UNCHANGED <<localVars, pureVars, xcode, rscript, rchan, rend, remitted, rbuffer, rcmd,
                   rstatus, rlogPath, rlogWrite, rfile, rnotices, rop, config, netlog, rsess, rreply>>

\* The worker thread reports what the operation returned and ends.
RReport ==
    /\ rpc = "report"
    /\ LET r == CHOOSE x \in rresult : TRUE IN
       rnotices' = Append(rnotices,
                          Notice(IF r.ok THEN r.msg
                                 ELSE IF rop = "build" THEN "iOS Build Failed"
                                 ELSE "iOS Nuke Failed"))
    /\ rpc' = "done"
    /\ UNCHANGED <<localVars, pureVars, xcode, rscript, rchan, rend, remitted, rbuffer, rcmd,
                   rstatus, rlogPath, rlogWrite, rfile, rresult, rop, config, netlog, rsess, rreply>>

\* start_ios_build and what its worker thread does.
NextRemote ==
    \/ RStartIosBuild
    \/ RReturn
    \/ RSyncEmit
    \/ RSyncLaunch
    \/ RSyncFiles
    \/ RCreateSession
    \/ RPreflight
    \/ RPreflightExec
    \/ RPreflightRead
    \/ ROpenChannel
    \/ RExec
    \/ RExecReply
    \/ RReadChunk
    \/ RReadEnd
    \/ RClose
    \/ RPersistLog
    \/ RFinish
    \/ RReport

\* Either remote command and what its worker thread does.
NextSatellite == NextRemote \/ RTriggerNuke

Next == NextLocal \/ NextRemote

vars == <<localVars, remoteVars, pureVars>>

\* ---------------------------------------------------------- specifications

OutStreams == SeqsUpTo(ByteAlphabet, MaxStreamLen)
ErrStreams == SeqsUpTo(ByteAlphabet, MaxErrLen)

\* One build is issued: a local one, or a remote one.
Init ==
    \/ /\ InitRegistry({{}}, {NoChild})
       /\ InitLocal({1}, OutStreams, ErrStreams)
       /\ InitPlan({"apk"}, {TRUE})
       /\ RemoteUnused
       /\ PureUnused
    \/ /\ InitRegistry({{}}, {NoChild})
       /\ InitLocal({}, {<<>>}, {<<>>})
       /\ InitPlan({"apk"}, {TRUE})
       /\ InitRemote({"build"}, {KeyConfig}, OutStreams)
       /\ PureUnused

Spec == Init /\ [][Next]_vars

\* Two overlapping invocations of execute_build, while time passes.
NextConc == NextLocal \/ Tick

InitConc ==
    /\ InitRegistry({{}}, {NoChild})
    /\ InitLocal(Builds, {<<>>, <<65, LF>>}, {<<>>})
    /\ InitPlan({"apk"}, {TRUE})
    /\ RemoteUnused
    /\ PureUnused

SpecConc == InitConc /\ [][NextConc]_vars

\* abort_build and the eviction of execute_build on every content of the
\* registry slot: empty, the handle of a live child, the handle of a dead one.
InitAbort ==
    /\ InitRegistry({{}, {Stale}},
                    {[state |-> "running", code |-> 0]}
                       \cup {[state |-> "exited", code |-> c] : c \in ExitCodes})
    /\ InitLocal({1}, {<<>>, <<65, LF>>}, {<<>>})
    /\ InitPlan({"apk"}, {TRUE})
    /\ RemoteUnused
    /\ PureUnused

SpecAbort == InitAbort /\ [][NextLocal]_vars

\* The MacConfig values that are enumerated.
IpInputs == SeqsUpTo({"1", ":"}, MaxIpLen)
OptionalStrings(c) == {{}, {<<>>}, {<<c>>}}
Configs ==
    [ip : IpInputs, username : {<<>>, <<"u">>}, password : OptionalStrings("p"),
     keyPath : OptionalStrings("k")]

\* One remote command is issued, a build or a recovery, with any MacConfig.
InitSatellite ==
    /\ InitRegistry({{}}, {NoChild})
    /\ InitLocal({}, {<<>>}, {<<>>})
    /\ InitPlan({"apk"}, {TRUE})
    /\ InitRemote({"build", "nuke"}, Configs, {<<>>, <<65>>, <<255, LF>>})
    /\ PureUnused

SpecSatellite == InitSatellite /\ [][NextSatellite]_vars

\* One hardware profile is asked for, of any machine.
InitHardware ==
    /\ InitRegistry({{}}, {NoChild})
    /\ InitLocal({}, {<<>>}, {<<>>})
    /\ InitPlan({"apk"}, {TRUE})
    /\ RemoteUnused
    /\ InitProfile(CoreCounts, RamSizesMiB)

SpecHardware == InitHardware /\ [][GetHardwareProfile]_vars

\* One path is converted, any path over PathAlphabet.
InitConvert ==
    /\ InitRegistry({{}}, {NoChild})
    /\ InitLocal({}, {<<>>}, {<<>>})
    /\ InitPlan({"apk"}, {TRUE})
    /\ RemoteUnused
    /\ InitPath(SeqsUpTo(PathAlphabet, MaxPathLen))

SpecConvert == InitConvert /\ [][ConvertPath]_vars

\* The values of build_type that are enumerated.
BuildTypes == {"aab", "apk", "AAB", ""}

\* One local build of any build type, in either mode.
InitTask ==
    /\ InitRegistry({{}}, {NoChild})
    /\ InitLocal({1}, {<<>>, <<65, LF>>}, {<<>>})
    /\ InitPlan(BuildTypes, BOOLEAN)
    /\ RemoteUnused
    /\ PureUnused

SpecTask == InitTask /\ [][NextLocal]_vars

\* One remote script runs on any host.
InitShell ==
    /\ InitRegistry({{}}, {NoChild})
    /\ InitLocal({}, {<<>>}, {<<>>})
    /\ InitPlan({"apk"}, {TRUE})
    /\ RemoteUnused
    /\ InitScript

SpecShell == InitShell /\ [][NextScript]_vars

\* ------------------------------------------------------------------ claims

\* Invocation b's subprocess has been spawned and has not ended.
LocalRunning(b) == pc[b] \in {"join1", "join2", "wait"} /\ child[b].state = "running"

\* C1 (as claimed): whenever a local build is running, the registry slot
\* holds the handle of that build's subprocess.
C1_RunningBuildIsRegistered ==
    \A b \in Builds : LocalRunning(b) => registry = {b}

\* C2 (as claimed): at most one local build subprocess is alive at any time.
C2_AtMostOneLiveBuild ==
    Cardinality({b \in Builds : child[b].state = "running"}) <= 1

\* C3 (as claimed): an abort_build that runs while a local build is running
\* kills that build's subprocess.
C3_AbortKillsRunningBuild ==
    [][(AbortBuild /\ \E b \in Builds : LocalRunning(b))
          => \E b \in Builds : LocalRunning(b) /\ child'[b].state = "killed"]_vars

\* C4: abort_build never returns an error and always leaves the slot empty; on
\* an empty slot it returns "No active build" and kills nothing; on a taken
\* handle, of a live or of an already finished process, it returns
\* "Build Aborted" and that process is not running afterwards.
C4_AbortIsIdempotentAndNeverFails ==
    [][AbortBuild =>
          /\ abortResult'.ok
          /\ registry' = {}
          /\ (registry = {} => abortResult'.msg = "No active build" /\ child' = child)
          /\ (registry # {} =>
                 /\ abortResult'.msg = "Build Aborted"
                 /\ abortResult'.took = registry
                 /\ \A p \in registry : child'[p].state # "running")]_vars

\* C4 witness: abort_build took the handle of a process that had already
\* exited, and returned Ok.
C4_Witness ==
    /\ abortResult.took = {Stale}
    /\ child[Stale].state = "exited"
    /\ abortResult.ok
    /\ registry = {}

\* C8: once the controller is at or past child.wait(), both relay threads of
\* that build have terminated.
C8_ReapOnlyAfterRelays ==
    \A b \in Builds :
        (pc[b] = "wait" \/ status[b] # {}) =>
            RelayOver(b, "stdout") /\ RelayOver(b, "stderr")

\* C8 witness: an exit status was reaped after both relays had forwarded output.
C8_Witness ==
    /\ status[1] # {}
    /\ emitted[1]["stdout"] # <<>>
    /\ emitted[1]["stderr"] # <<>>

\* Invocation b of execute_build returned after it had obtained an exit status.
LocalReturned(b) == result[b] # {} /\ status[b] # {}
LocalResult(b) == CHOOSE r \in result[b] : TRUE
LocalLogPath(b) == CHOOSE p \in logPath[b] : TRUE

\* execute_turbo_ios returned after the build command's exit status was read.
RemoteReturned == rresult # {} /\ rstatus # {}
RemoteResult == CHOOSE r \in rresult : TRUE
RemoteStatus == CHOOSE st \in rstatus : TRUE

\* C5 (as claimed): a build that obtained an exit status returns Success iff
\* the status is zero, and its Failure carries the numeric exit code.
C5_FailureCarriesExitCode ==
    /\ \A b \in Builds : LocalReturned(b) =>
          /\ LocalResult(b).ok <=> StatusOf(b) = 0
          /\ StatusOf(b) # 0 => LocalResult(b).code = {StatusOf(b)}
    /\ RemoteReturned =>
          /\ RemoteResult.ok <=> RemoteStatus = 0
          /\ RemoteStatus # 0 => RemoteResult.code = {RemoteStatus}

\* C5 (amended): a build that obtained an exit status returns Success iff the
\* status is zero; the Failure of execute_turbo_ios carries the numeric exit
\* code, the Failure of execute_build carries the log path and no exit code.
C5_SuccessIffZeroExit ==
    /\ \A b \in Builds : LocalReturned(b) =>
          /\ LocalResult(b).ok <=> StatusOf(b) = 0
          /\ StatusOf(b) # 0 =>
                LocalResult(b).code = {} /\ LocalResult(b).path = {LocalLogPath(b)}
    /\ RemoteReturned =>
          /\ RemoteResult.ok <=> RemoteStatus = 0
          /\ RemoteStatus # 0 => RemoteResult.code = {RemoteStatus}

\* C5 witness: a local build whose command exited with code 2 returned its
\* Failure.
C5_Witness ==
    /\ LocalReturned(1)
    /\ StatusOf(1) = 2
    /\ ~LocalResult(1).ok

\* The file at the log path of invocation b, if there is one.
LocalLogFile(b) == {f \in files : f.path \in logPath[b]}

\* The log file of a returned local build, when there is one, is what the
\* claim says: prefix by exit status, content the Log Buffer.
LocalLogFileRight(b) ==
    \A f \in LocalLogFile(b) :
        /\ f.path.prefix = (IF StatusOf(b) = 0 THEN "android_build_success"
                                              ELSE "android_build_fail")
        /\ f.content = BufferText(b)
        /\ (\E s \in StreamNames : emitted[b][s] # <<>>) => f.content # <<>>

RemoteLogFileRight ==
    \A f \in rfile :
        /\ f.path.prefix = (IF RemoteStatus = 0 THEN "ios_build_success"
                                                ELSE "ios_build_fail")
        /\ f.content = RemoteBufferText
        /\ remitted # <<>> => f.content # <<>>

\* C6 (as claimed): every build that ran to an exit status has, when the
\* controller returns, a log file with the prefix of its branch whose content
\* is the Log Buffer.
C6_LogAlwaysPersisted ==
    /\ \A b \in Builds : LocalReturned(b) => LocalLogFile(b) # {} /\ LocalLogFileRight(b)
    /\ RemoteReturned => rfile # {} /\ RemoteLogFileRight

\* No other invocation has named the log path of invocation b.
SoleWriter(b) == \A c \in Builds \ {b} : logPath[c] # logPath[b]

\* C6 (amended): before it returns, execute_build has attempted the write of
\* the log file on both branches, to a path with the prefix of its branch
\* (execute_turbo_ios only when a home directory is known); the write is
\* best-effort: unless another invocation wrote to the same path, a file at
\* the path holds an initial part of the Log Buffer, and whenever the write
\* succeeded the file exists and its content is the whole Log Buffer.
C6_LogWriteAttemptedAndRightWhenWritten ==
    /\ \A b \in Builds : LocalReturned(b) =>
          /\ logPath[b] # {}
          /\ logWrite[b] # {}
          /\ LocalLogPath(b).prefix = (IF StatusOf(b) = 0 THEN "android_build_success"
                                                          ELSE "android_build_fail")
          /\ SoleWriter(b) =>
                /\ \A f \in LocalLogFile(b) : IsPrefix(f.content, BufferText(b))
                /\ logWrite[b] = {TRUE} => LocalLogFile(b) # {} /\ LocalLogFileRight(b)
    /\ RemoteReturned =>
          /\ \A f \in rfile :
                /\ f.path \in rlogPath
                /\ f.path.prefix = (IF RemoteStatus = 0 THEN "ios_build_success"
                                                        ELSE "ios_build_fail")
                /\ IsPrefix(f.content, RemoteBufferText)
          /\ rlogWrite = {TRUE} => rfile # {} /\ RemoteLogFileRight

\* C6 witness: a failed local build that relayed output returned with its
\* fail-prefixed log file written in full.
C6_Witness ==
    /\ LocalReturned(1)
    /\ StatusOf(1) # 0
    /\ emitted[1]["stdout"] # <<>>
    /\ logWrite[1] = {TRUE}
    /\ LocalLogFile(1) # {}

LogSavedNotice(p) == [msg |-> "Log saved to", path |-> {p}]
InSeq(x, s) == \E i \in 1..Len(s) : s[i] = x

\* C7 (as claimed): the value execute_build or execute_turbo_ios returns,
\* Success as well as Failure, carries the path of the log file; stated for
\* the builds that ran to an exit status and so came to the log write.
C7_EveryOutcomeCarriesLogPath ==
    /\ \A b \in Builds : LocalReturned(b) =>
          logPath[b] # {} /\ LocalResult(b).path = logPath[b]
    /\ RemoteReturned => rlogPath # {} /\ RemoteResult.path = rlogPath

\* C7 (amended): of the returned values only the Failure execute_build returns
\* for a nonzero exit status carries the log path; every build that wrote or
\* tried to write its log reports the path in a "Log saved to" event to the
\* Observer before it returns.
C7_LogPathReported ==
    /\ \A b \in Builds : result[b] # {} =>
          /\ LocalResult(b).path # {} <=> (status[b] # {} /\ StatusOf(b) # 0)
          /\ LocalResult(b).path # {} => LocalResult(b).path = logPath[b]
          /\ status[b] # {} => InSeq(LogSavedNotice(LocalLogPath(b)), notices[b])
    /\ rresult # {} =>
          /\ RemoteResult.path = {}
          /\ \A p \in rlogPath : InSeq(LogSavedNotice(p), rnotices)

\* C7 witness: a successful local build returned; its value holds no path and
\* the path went to the Observer.
C7_Witness ==
    /\ LocalReturned(1)
    /\ LocalResult(1).ok
    /\ LocalResult(1).path = {}
    /\ InSeq(LogSavedNotice(LocalLogPath(1)), notices[1])

\* C9 (as claimed): the Log Buffer contribution of a relay that reached
\* end-of-stream is the concatenation of the chunks it emitted.
C9_BufferIsConcatOfEmitted ==
    /\ \A b \in Builds, s \in StreamNames : relay[b][s] = "eof" =>
          Flatten(EntriesOf(logBuffer[b], s)) = Flatten(emitted[b][s])
    /\ rend = "eof" => RemoteBufferText = Flatten(remitted)

\* C9 (amended): the contribution of the remote relay is the concatenation of
\* the chunks it emitted; the contribution of a local relay is the
\* concatenation of the lines it emitted, each followed by a newline.
C9_BufferIsEmittedLinesWithNewlines ==
    /\ \A b \in Builds, s \in StreamNames : relay[b][s] = "eof" =>
          EntriesOf(logBuffer[b], s) =
             [i \in 1..Len(emitted[b][s]) |-> emitted[b][s][i] \o <<LF>>]
    /\ rend = "eof" => RemoteBufferText = Flatten(remitted)

\* C9 witness: the stdout relay emitted two lines over two reads and then saw
\* end-of-stream.
C9_Witness ==
    /\ relay[1]["stdout"] = "eof"
    /\ Len(emitted[1]["stdout"]) >= 2
    /\ \E i \in 1..Len(emitted[1]["stdout"]) : emitted[1]["stdout"][i] # <<>>

\* The lines BufRead::lines yields for a whole stream.
RECURSIVE SplitLines(_)
SplitLines(bs) ==
    IF bs = <<>> THEN <<>>
    ELSE LET n == NextLine(bs, TRUE) IN <<n.bytes>> \o SplitLines(n.rest)

\* C10 (as claimed): a relay that stopped without a read error has forwarded
\* every chunk of its stream, invalid bytes decoded with replacement.
C10_RelayStopsOnlyAtEndOfStream ==
    /\ \A b \in Builds, s \in StreamNames :
          (RelayOver(b, s) /\ relay[b][s] # "ioerr") =>
              emitted[b][s] = [i \in 1..Len(SplitLines(script[b][s])) |->
                                  Utf8Lossy(SplitLines(script[b][s])[i])]
    /\ (rpc \in {"close", "rlog", "ret", "report", "done"} /\ rend = "eof") =>
          Flatten(remitted) = Utf8Lossy(rscript)

\* a is an initial part of b.

\* The lines of stream s of build b in stream order, each as one buffer entry.
StreamEntries(b, s) ==
    [i \in 1..Len(SplitLines(script[b][s])) |-> LineEntry(SplitLines(script[b][s])[i])]

\* C11: in every step of every interleaving of the two relays of a local build
\* that touches the Log Buffer or a relay, the Log Buffer only grows at its
\* end, by at most one whole entry; the
\* entries one relay has appended are, in stream order, the lines of its
\* stream it has read so far, each whole; and once the relay has seen
\* end-of-stream they are all the lines of that stream.
C11_BufferAppendOnlyPerRelayInOrder ==
    [][\A b \in Builds :
          \/ logBuffer'[b] = logBuffer[b] /\ relay'[b] = relay[b]
          \/ /\ IsPrefix(logBuffer[b], logBuffer'[b])
             /\ Len(logBuffer'[b]) <= Len(logBuffer[b]) + 1
             /\ \A s \in StreamNames :
                   /\ IsPrefix(EntriesOf(logBuffer'[b], s), StreamEntries(b, s))
                   /\ relay'[b][s] = "eof" =>
                         EntriesOf(logBuffer'[b], s) = StreamEntries(b, s)]_vars

\* C11 witness: both relays saw end-of-stream and an entry of the stderr relay
\* stands between two entries of the stdout relay.
C11_Witness ==
    /\ relay[1]["stdout"] = "eof"
    /\ relay[1]["stderr"] = "eof"
    /\ Len(logBuffer[1]) = 3
    /\ logBuffer[1][1].src = "stdout"
    /\ logBuffer[1][2].src = "stderr"
    /\ logBuffer[1][3].src = "stdout"

\* C12: in execute_turbo_ios the build command is submitted on a channel only
\* after create_session succeeded and the pre-flight check passed; when the
\* function returns a connection, authentication or environment error, the
\* build command was never submitted and none of its output was relayed.
C12_BuildOnlyAfterSessionAndPreflight ==
    rop = "build" =>
        /\ InSeq("exec_build", netlog) =>
              /\ rsess = {"ok"}
              /\ InSeq(Notice("Pre-flight passed"), rnotices)
        /\ \A r \in rresult :
              r.msg \in SessionErrors \cup {"Pre-flight check failed",
                                           "Pre-flight exec failed",
                                           "Remote environment invalid"} =>
                  /\ ~r.ok
                  /\ ~InSeq("exec_build", netlog)
                  /\ remitted = <<>>
                  /\ rcmd = {}

\* C12 witness: the build command was submitted and execute_turbo_ios returned.
C12_Witness ==
    /\ rop = "build"
    /\ InSeq("exec_build", netlog)
    /\ rpc = "done"
    /\ rstatus # {}

\* C13 (as claimed): with xcodebuild absent on the remote host,
\* execute_turbo_ios never passes the pre-flight check and never submits the
\* build command, and once the pre-flight command ran it returns "Remote
\* environment invalid", however the read of the pre-flight output went.
C13_AbsentToolchainNeverBuilds ==
    (rop = "build" /\ ~xcode) =>
        /\ ~InSeq(Notice("Pre-flight passed"), rnotices)
        /\ ~InSeq("exec_build", netlog)
        /\ rpc \notin {"build", "exec", "execwait", "read", "close", "rlog", "ret"}
        /\ (rsess = {"ok"} /\ rresult # {}) =>
              RemoteResult.msg \in {"Remote environment invalid",
                                    "Pre-flight check failed", "Pre-flight exec failed"}

\* The phase of the remote build a position of the worker thread belongs to.
Phase(at) ==
    CASE at \in {"idle", "sync", "synclaunch", "syncwait", "unused"} -> "Idle"
      [] at = "session" -> "Connecting"
      [] at \in {"preflight", "pfopen", "pfread"} -> "PreflightCheck"
      [] at \in {"build", "exec", "execwait", "read"} -> "Hydrating+Building"
      [] at = "close" -> "Collecting"
      [] at \in {"rlog", "ret"} -> "Archiving"
      [] at \in {"report", "done"} -> "Terminal"

\* The order the state machine of the specification gives the phases.
ClaimedOrder ==
    <<"Idle", "PreflightCheck", "Connecting", "Hydrating+Building", "Collecting",
      "Archiving", "Terminal">>

\* The order execute_turbo_ios goes through them.
CodeOrder ==
    <<"Idle", "Connecting", "PreflightCheck", "Hydrating+Building", "Collecting",
      "Archiving", "Terminal">>

RankIn(order, ph) == CHOOSE i \in 1..Len(order) : order[i] = ph

\* A step from phase p to phase q that enters q only when the phase before q
\* in order is the one just completed; a failure may end in Terminal at once.
InOrder(order, p, q) ==
    \/ q = p
    \/ q = "Terminal"
    \/ RankIn(order, q) = RankIn(order, p) + 1

\* C14 (as claimed): every step of a remote build stays in its phase, enters
\* the next phase of Idle, PreflightCheck, Connecting, Hydrating+Building,
\* Collecting, Archiving, Terminal, or ends in Terminal.
C14_PhasesInClaimedOrder ==
    [][rop = "build" => InOrder(ClaimedOrder, Phase(rpc), Phase(rpc'))]_vars

\* C14 (amended): every step of a remote build stays in its phase, enters the
\* next phase of Idle, Connecting, PreflightCheck, Hydrating+Building,
\* Collecting, Archiving, Terminal, ends in Terminal, or goes from
\* Hydrating+Building straight to Archiving (the build channel could not be
\* opened, there is no exit status to collect).
C14_PhasesInCodeOrder ==
    [][rop = "build" =>
          \/ InOrder(CodeOrder, Phase(rpc), Phase(rpc'))
          \/ /\ Phase(rpc) = "Hydrating+Building"
             /\ Phase(rpc') = "Archiving"
             /\ rstatus' = {}]_vars

\* C14 witness: a remote build went through every phase: it read an exit
\* status, wrote its log and returned.
C14_Witness ==
    /\ rop = "build"
    /\ rpc = "done"
    /\ rstatus # {}
    /\ rlogPath # {}
    /\ InSeq(Notice("Pre-flight passed"), rnotices)

\* C15 (as claimed): with an empty address or an empty username no remote
\* operation attempts a network call.
C15_InvalidDescriptorMakesNoNetworkCall ==
    (ParseIpAndPort(config.ip).ip = <<>> \/ config.username = <<>>) => netlog = <<>>

\* The descriptor names a host and a user.
ValidAddress(cfg) == ParseIpAndPort(cfg.ip).ip # <<>> /\ cfg.username # <<>>

\* Neither a non-empty key path nor a non-empty password.
NoCredentials(cfg) == cfg.keyPath \subseteq {<<>>} /\ cfg.password \subseteq {<<>>}

AuthAttempted == InSeq("auth_key", netlog) \/ InSeq("auth_password", netlog)

\* C16 (as claimed): with no credentials, create_session fails with "No
\* credentials provided", attempts no authentication, and has opened no
\* connection and made no handshake.
C16_NoCredentialsBeforeNetwork ==
    (rsess # {} /\ ValidAddress(config) /\ NoCredentials(config)) =>
        /\ rsess = {"No credentials provided"}
        /\ ~AuthAttempted
        /\ ~InSeq("tcp_connect", netlog)
        /\ ~InSeq("handshake", netlog)

\* C16 (amended): with no credentials (and a host and a user), create_session
\* attempts no authentication; it first connects and makes the handshake, so
\* it fails with the connection error or the handshake error when one of these
\* fails, and with "No credentials provided" after both succeeded.
C16_NoCredentialsAfterHandshake ==
    (rsess # {} /\ ValidAddress(config) /\ NoCredentials(config)) =>
        /\ ~AuthAttempted
        /\ InSeq("tcp_connect", netlog)
        /\ rsess \in {{"Connection failed: Cannot reach"}, {"SSH Handshake failed"},
                      {"No credentials provided"}}
        /\ rsess = {"Connection failed: Cannot reach"} <=> ~InSeq("handshake", netlog)
        /\ rsess = {"No credentials provided"} =>
              InSeq("tcp_connect", netlog) /\ InSeq("handshake", netlog)

\* C16 witness: a descriptor with an empty-string password and no key path
\* got "No credentials provided".
C16_Witness ==
    /\ config.password = {<<>>}
    /\ config.keyPath = {}
    /\ rsess = {"No credentials provided"}

\* C17: when the key path is non-empty, create_session never attempts password
\* authentication and never returns the password error, whatever password is
\* configured, and its "key file not found" error comes without any
\* authentication attempt; when the key path is absent or empty and the
\* password non-empty, the key is never tried, none of the key errors and no
\* "No credentials provided" is returned, and a session that got past the
\* handshake attempted password authentication.
C17_KeyAuthExcludesPassword ==
    rsess # {} =>
        /\ (\E k \in config.keyPath : k # <<>>) =>
              /\ ~InSeq("auth_password", netlog)
              /\ rsess # {"Password auth failed"}
              /\ rsess # {"No credentials provided"}
              /\ rsess = {"SSH Key file not found"} => ~AuthAttempted
              /\ rsess \in {{"ok"}, {"SSH Key auth failed"}, {"Authentication failed"}} =>
                    InSeq("auth_key", netlog)
        /\ (config.keyPath \subseteq {<<>>} /\ \E w \in config.password : w # <<>>) =>
              /\ ~InSeq("auth_key", netlog)
              /\ rsess \notin {{"SSH Key file not found"}, {"SSH Key auth failed"},
                               {"No credentials provided"}}
              /\ rsess \in {{"ok"}, {"Password auth failed"}, {"Authentication failed"}} =>
                    InSeq("auth_password", netlog)

\* C17 witness: key path and password are both set, the key was rejected.
C17_Witness ==
    /\ config.keyPath = {<<"k">>}
    /\ config.password = {<<"p">>}
    /\ rsess = {"SSH Key auth failed"}

\* C18: what a build that obtained an exit status returns is fixed by the exit
\* status: a zero exit gives one of the success messages of execute_build (the
\* choice among them is the artifact's presence and freshness) or the success
\* message of execute_turbo_ios, a non-zero exit gives the Failure; whether the
\* log was written and the artifact copied changes neither.
C18_OutcomeOnlyByExitStatus ==
    /\ \A b \in Builds : LocalReturned(b) =>
          IF StatusOf(b) = 0
          THEN LocalResult(b) \in {Ok("Build completed! (Fresh APK)"),
                                   Ok("Build completed! (Cached - no code changes)"),
                                   Ok("Build completed!")}
          ELSE LocalResult(b) = [Err("Build failed. Log") EXCEPT !.path = logPath[b]]
    /\ (RemoteReturned /\ rop = "build") =>
          IF RemoteStatus = 0
          THEN RemoteResult = Ok("iOS Build Completed Successfully via Satellite")
          ELSE RemoteResult =
                  [Err("Command failed with exit code") EXCEPT !.code = {RemoteStatus}]

\* C18 witness: a zero-exit local build whose log was not written and whose
\* fresh artifact was not copied returned Success.
C18_Witness ==
    /\ LocalReturned(1)
    /\ StatusOf(1) = 0
    /\ logWrite[1] = {FALSE}
    /\ LocalLogFile(1) = {}
    /\ ~archived[1]
    /\ LocalResult(1) = Ok("Build completed! (Fresh APK)")

\* C19: the profile calculate_profile returns has at least 4 workers, the
\* workers are the largest whole number not above nine tenths of the cores
\* when that is 4 or more, the heap lies between 4 and 16 and is the largest
\* whole number of GiB not above half the memory when that lies between;
\* neither shrinks when the cores resp. the memory grow; 32 cores and 256 GiB
\* give 28 workers and heap 16, 2 cores and 4 GiB give 4 and 4.
C19_ProfileFormulaBoundsMonotone ==
    \A pr \in hwProfile :
        /\ pr.max_workers >= 4
        /\ pr.max_workers = 4 \/ 10 * pr.max_workers <= 9 * hwCores
        /\ 10 * (pr.max_workers + 1) > 9 * hwCores
        /\ pr.jvm_heap_gb >= 4 /\ pr.jvm_heap_gb <= 16
        /\ pr.jvm_heap_gb = 4 \/ 2 * Kibi * pr.jvm_heap_gb <= hwRamMiB
        /\ pr.jvm_heap_gb = 16 \/ 2 * Kibi * (pr.jvm_heap_gb + 1) > hwRamMiB
        /\ \A c \in CoreCounts : c >= hwCores =>
              CalculateProfile(c, hwRamMiB).max_workers >= pr.max_workers
        /\ \A m \in RamSizesMiB : m >= hwRamMiB =>
              CalculateProfile(hwCores, m).jvm_heap_gb >= pr.jvm_heap_gb
        /\ (hwCores = 32 /\ hwRamMiB = 256 * Kibi) =>
              pr.max_workers = 28 /\ pr.jvm_heap_gb = 16
        /\ (hwCores = 2 /\ hwRamMiB = 4 * Kibi) =>
              pr.max_workers = 4 /\ pr.jvm_heap_gb = 4

\* C19 witness: the profile of the 32-core, 256 GiB machine was computed.
C19_Witness ==
    /\ hwProfile # {}
    /\ hwCores = 32
    /\ hwRamMiB = HighEndGiB * Kibi

\* C20: nuke_ios_remote puts nothing into a log buffer, names no log path,
\* writes no log file and announces none, whatever the recovery script prints
\* and however it ends.
C20_RecoveryKeepsNoLog ==
    rop = "nuke" =>
        /\ rbuffer = <<>>
        /\ rlogPath = {}
        /\ rfile = {}
        /\ \A i \in 1..Len(rnotices) : rnotices[i].msg # "Log saved to"

\* C20 witness: a recovery whose script printed output and exited non-zero
\* has returned its Failure.
C20_Witness ==
    /\ rop = "nuke"
    /\ rpc = "done"
    /\ remitted # <<>>
    /\ RemoteReturned
    /\ ~RemoteResult.ok

\* C22 (as claimed): windows_to_wsl_path returns, for a path whose second
\* character is ':', "/mnt/", the lower-cased first character and the rest of
\* the path after the ':' with every backslash replaced by '/'; for every
\* other path, the path with every backslash replaced; and the result never
\* contains a backslash.
C22_PathConversion ==
    \A r \in wpResult :
        /\ ~r.panic
        /\ IF Len(wpPath) >= 2 /\ wpPath[2] = Colon
           THEN r.out = MntPrefix \o <<ToLower(wpPath[1])>>
                           \o ReplaceBackslash(SubSeq(wpPath, 3, Len(wpPath)))
           ELSE r.out = ReplaceBackslash(wpPath)
        /\ \A i \in 1..Len(r.out) : r.out[i] # Backslash

\* Command c succeeds on the host of the run.
Succeeds(c) == shEnv[c] = 0

\* Command c ran, and the place of its first run in the trace.
Ran(r, c) == \E i \in 1..Len(r.trace) : r.trace[i] = c
FirstRun(r, c) == CHOOSE i \in 1..Len(r.trace) : r.trace[i] = c /\ \A j \in 1..(i - 1) : r.trace[j] # c

\* The steps of the recovery script the claim calls best-effort (process
\* kill, cache purge) and structural (workspace clean, re-hydration).
BestEffortSteps ==
    {"killall", "rm_derived_data", "rm_cocoapods_cache", "rm_pods", "rm_react_tmp",
     "watchman_del"}
StructuralSteps == {"cd_ios", "xcodebuild_clean", "pod_install"}

\* C21 (as claimed): in a run of the recovery script a best-effort step that
\* failed is not the last step that ran (the steps after it still run), and
\* a structural step that failed is the last step that ran and the script's
\* status is a failure.
C21_BestEffortGoesOnStructuralAborts ==
    \A r \in shRun : shScript = "nuke" =>
        /\ \A c \in BestEffortSteps : (Ran(r, c) /\ ~Succeeds(c)) =>
              r.trace[Len(r.trace)] # c
        /\ \A c \in StructuralSteps : (Ran(r, c) /\ ~Succeeds(c)) =>
              /\ r.trace[Len(r.trace)] = c
              /\ r.status # 0

\* C25 (as claimed): in a run of the remote build script the steps run in the
\* order change-to-project-directory, hydration, pod linking, xcodebuild; the
\* hydration is npm ci when the lockfile is present and npm install
\* otherwise; and xcodebuild runs only if the change of directory succeeded
\* and every hydration or linking step that ran succeeded.
C25_BuildScriptOrderAndGating ==
    \A r \in shRun : shScript = "build" =>
        /\ r.trace # <<>> => r.trace[1] = "cd_project"
        /\ \A h \in {"npm_ci", "npm_install"} :
              (Ran(r, h) /\ Ran(r, "pod_install")) => FirstRun(r, h) < FirstRun(r, "pod_install")
        /\ \A c \in {"npm_ci", "npm_install", "pod_install"} :
              (Ran(r, c) /\ Ran(r, "xcodebuild")) => FirstRun(r, c) < FirstRun(r, "xcodebuild")
        /\ Ran(r, "npm_ci") => Succeeds("has_lockfile")
        /\ Ran(r, "npm_install") => ~Succeeds("has_lockfile")
        /\ Ran(r, "xcodebuild") =>
              /\ Succeeds("cd_project")
              /\ \A c \in {"npm_ci", "npm_install", "pod_install"} : Ran(r, c) => Succeeds(c)

\* The notices emitted so far, and the network operations other than the
\* file synchronisation attempted so far.
NoticeSent(m) == \E i \in 1..Len(rnotices) : rnotices[i] = Notice(m)
SessionTraffic == {i \in 1..Len(netlog) : netlog[i] # "rsync"}

\* C26: in start_ios_build a remote session (any connection, authentication
\* or command) exists only after sync_files returned success; after a failed
\* sync the failure has been emitted, no session is opened and the worker is
\* over without a result; once the worker exists the command returns its
\* "ignited" result and nothing else, and wherever the worker is, failed or
\* finished included, the return waits for nothing; and the outcome of the
\* build is the last event emitted.
C26_BuildOnlyAfterSync ==
    rop = "build" =>
        /\ (rsess # {} \/ SessionTraffic # {}) =>
              /\ NoticeSent("Sync Complete")
              /\ ~NoticeSent("Sync Failed")
        /\ NoticeSent("Sync Failed") =>
              /\ rpc = "done"
              /\ rsess = {}
              /\ SessionTraffic = {}
              /\ rresult = {}
        /\ rpc = "idle" => rreply = {}
        /\ rpc # "idle" =>
              \/ rreply = {Ok("Sync & Build Ignited")}
              \/ rreply = {} /\ ENABLED RReturn
        /\ (rpc = "done" /\ rresult # {}) =>
              \E r \in rresult :
                  rnotices[Len(rnotices)] =
                      Notice(IF r.ok THEN r.msg ELSE "iOS Build Failed")

C26_Witness ==
    /\ rop = "build"
    /\ NoticeSent("Sync Failed")
    /\ rpc = "done"
    /\ rreply = {Ok("Sync & Build Ignited")}

\* C23: whenever execute_build has chosen its task, the task is bundleDebug
\* for build type "aab" and assembleDebug for every other build type; and
\* whenever it has chosen the artifact to look for (after a successful
\* build), the artifact is the bundle path with extension aab for "aab" and
\* the apk path with extension apk for every other build type, so the two
\* choices agree.
C23_BuildTypeSelectsTaskAndArtifact ==
    \A b \in Builds :
        /\ task[b] # {} =>
              task[b] = {IF buildType[b] = "aab" THEN "bundleDebug" ELSE "assembleDebug"}
        /\ artifact[b] # {} =>
              /\ task[b] # {}
              /\ artifact[b] =
                    {IF buildType[b] = "aab"
                     THEN [subpath |-> "android/app/build/outputs/bundle/debug/app-debug.aab",
                           ext |-> "aab"]
                     ELSE [subpath |-> "android/app/build/outputs/apk/debug/app-debug.apk",
                           ext |-> "apk"]}
              /\ \A a \in artifact[b] : a.ext = "aab" <=> task[b] = {"bundleDebug"}
        /\ (pc[b] = "done" /\ status[b] # {} /\ Success(StatusOf(b))) => artifact[b] # {}

C23_Witness ==
    \E b \in Builds :
        /\ buildType[b] = "aab"
        /\ task[b] = {"bundleDebug"}
        /\ artifact[b] # {}
        /\ pc[b] = "done"

\* C24: in every step, the Log Buffer of a local build changes only by the
\* relay that holds its mutex, and no other relay holds it; the controller
\* reads the buffer for the log file only when the mutex is free and both
\* relays are over, and the buffer does not change in or after that step;
\* the buffer of the remote build changes only inside the read loop of
\* run_remote_command, and is read for the log file only after
\* run_remote_command has returned, and does not change in or after that step.
C24_AppendsLockedReadAfterWriters ==
    [][/\ \A b \in Builds :
             /\ logBuffer'[b] # logBuffer[b] =>
                   \E s \in StreamNames :
                       /\ bufLock[b] = {s}
                       /\ relay[b][s] = "holding"
                       /\ \A t \in StreamNames \ {s} : relay[b][t] # "holding"
             /\ (pc[b] = "log" /\ pc'[b] # "log") =>
                   /\ bufLock[b] = {}
                   /\ \A s \in StreamNames : RelayOver(b, s)
             /\ pc[b] \in {"log", "classify", "done"} =>
                   /\ logBuffer'[b] = logBuffer[b]
                   /\ relay'[b] = relay[b]
       /\ rbuffer' # rbuffer => rpc = "read"
       /\ (rpc = "rlog" /\ rpc' # "rlog") => rcmd # {}
       /\ rpc \in {"rlog", "ret", "report", "done"} => rbuffer' = rbuffer]_vars

\* C24 witness: one relay holds the mutex while the other, its line already
\* sent, waits for it.
C24_Witness ==
    \E b \in Builds :
        /\ relay[b]["stdout"] = "holding"
        /\ relay[b]["stderr"] = "locking"
        /\ bufLock[b] = {"stdout"}
        /\ logBuffer[b] # <<>>

====
